---- MODULE Spec2Model ----
(***************************************************************************)
(* Verification model of the server log analyzer (Pixcell/ciq-code-        *)
(* challenge): the read-only query validator and the query command of      *)
(* internal/commands/query.go, and the schema inference of                 *)
(* internal/parser/schema.go.                                              *)
(*                                                                         *)
(* A Go string is modelled as a sequence of one-character strings, so the  *)
(* regular expressions, prefix tests and word boundaries of the code work  *)
(* on characters exactly as in the source.                                 *)
(***************************************************************************)
EXTENDS Integers, Sequences, FiniteSets, TLC

(***************************************************************************)
(* Bounds of the model                                                     *)
(***************************************************************************)
\* longest query, counted in lexemes of one alphabet
MaxLen == 4
\* longest interactive input line, counted in lexemes of LineLexemes
MaxLine == 2
\* longest enumerated value of a field, counted in lexemes of ValueLexemes
MaxValueLen == 3

(***************************************************************************)
(* Characters and the string helpers of package strings                    *)
(***************************************************************************)
UpperLetters == <<"A", "B", "C", "D", "E", "F", "G", "H", "I", "J", "K", "L", "M", "N", "O", "P", "Q", "R", "S", "T", "U", "V", "W", "X", "Y", "Z">>
LowerLetters == <<"a", "b", "c", "d", "e", "f", "g", "h", "i", "j", "k", "l", "m", "n", "o", "p", "q", "r", "s", "t", "u", "v", "w", "x", "y", "z">>
Digits == {"0", "1", "2", "3", "4", "5", "6", "7", "8", "9"}

Range(s) == {s[i] : i \in 1..Len(s)}

\* unicode.IsSpace restricted to the ASCII white space
WhiteSpace == {" ", "\t", "\n", "\r"}

\* the class \w of the regexp package: [0-9A-Za-z_]
WordChars == Range(UpperLetters) \cup Range(LowerLetters) \cup Digits \cup {"_"}

IsWordChar(c) == c \in WordChars

UpperSet == Range(UpperLetters)

LowerSet == Range(LowerLetters)

ToLowerChar(c) ==
  IF c \in UpperSet
  THEN LowerLetters[CHOOSE i \in 1..26 : UpperLetters[i] = c]
  ELSE c

ToUpperChar(c) ==
  IF c \in LowerSet
  THEN UpperLetters[CHOOSE i \in 1..26 : LowerLetters[i] = c]
  ELSE c

\* strings.ToLower
ToLower(s) == [i \in 1..Len(s) |-> ToLowerChar(s[i])]

\* strings.ToUpper
ToUpper(s) == [i \in 1..Len(s) |-> ToUpperChar(s[i])]

\* strings.TrimSpace
TrimSpace(s) ==
  LET keep == {i \in 1..Len(s) : s[i] \notin WhiteSpace}
  IN IF keep = {} THEN <<>>
     ELSE LET lo == CHOOSE i \in keep : \A j \in keep : i <= j
              hi == CHOOSE i \in keep : \A j \in keep : j <= i
          IN SubSeq(s, lo, hi)

\* strings.HasPrefix
HasPrefix(s, p) == Len(s) >= Len(p) /\ SubSeq(s, 1, Len(p)) = p

\* strings.HasSuffix
HasSuffix(s, p) == Len(s) >= Len(p) /\ SubSeq(s, Len(s) - Len(p) + 1, Len(s)) = p

\* strings.Contains
Contains(s, p) == \E i \in 1..(Len(s) - Len(p) + 1) : SubSeq(s, i, i + Len(p) - 1) = p

\* len(strings.Split(s, sep)) for a one-character separator
SplitCount(s, c) == Cardinality({i \in 1..Len(s) : s[i] = c}) + 1

\* strings.ReplaceAll(s, old, new) for a non-empty old
RECURSIVE ReplaceAll(_, _, _)
ReplaceAll(s, old, new) ==
  IF s = <<>> THEN <<>>
  ELSE IF HasPrefix(s, old)
       THEN new \o ReplaceAll(SubSeq(s, Len(old) + 1, Len(s)), old, new)
       ELSE <<Head(s)>> \o ReplaceAll(Tail(s), old, new)

\* concatenation of a sequence of strings
RECURSIVE Concat(_)
Concat(ss) == IF ss = <<>> THEN <<>> ELSE Head(ss) \o Concat(Tail(ss))

\* all sequences of at most n elements of S
BoundedSeq(S, n) == UNION {[1..k -> S] : k \in 0..n}

(***************************************************************************)
(* ValidateReadOnlyQuery (internal/commands/query.go)                      *)
(***************************************************************************)
\* commentRegex `--.*` replaced by "": a line comment runs from "--" up to,
\* not including, the next newline ('.' does not match a newline)
RECURSIVE StripLineFrom(_, _)
StripLineFrom(s, inComment) ==
  IF s = <<>> THEN <<>>
  ELSE IF inComment
       THEN IF Head(s) = "\n"
            THEN <<"\n">> \o StripLineFrom(Tail(s), FALSE)
            ELSE StripLineFrom(Tail(s), TRUE)
       ELSE IF HasPrefix(s, <<"-", "-">>)
            THEN StripLineFrom(Tail(Tail(s)), TRUE)
            ELSE <<Head(s)>> \o StripLineFrom(Tail(s), FALSE)

StripLineComments(s) == StripLineFrom(s, FALSE)

\* the end of the shortest match of `/\*.*?\*/` that starts at s[1], or 0
BlockCommentEnd(s) ==
  IF ~HasPrefix(s, <<"/", "*">>) THEN 0
  ELSE LET ends == {j \in 4..Len(s) :
                      /\ s[j - 1] = "*"
                      /\ s[j] = "/"
                      /\ \A m \in 3..(j - 2) : s[m] # "\n"}
       IN IF ends = {} THEN 0 ELSE CHOOSE j \in ends : \A m \in ends : j <= m

\* multiCommentRegex `/\*.*?\*/` replaced by ""
RECURSIVE StripBlockComments(_)
StripBlockComments(s) ==
  IF s = <<>> THEN <<>>
  ELSE IF BlockCommentEnd(s) > 0
       THEN StripBlockComments(SubSeq(s, BlockCommentEnd(s) + 1, Len(s)))
       ELSE <<Head(s)>> \o StripBlockComments(Tail(s))

\* the normalizedQuery of ValidateReadOnlyQuery
Normalize(q) ==
  TrimSpace(StripBlockComments(StripLineComments(TrimSpace(ToLower(q)))))

allowedPrefixes == << <<"s", "e", "l", "e", "c", "t">>, <<"w", "i", "t", "h">>, <<"e", "x", "p", "l", "a", "i", "n">> >>

allowedPragmas ==
  << <<"p", "r", "a", "g", "m", "a", " ", "t", "a", "b", "l", "e", "_", "i", "n", "f", "o", "(">>,
     <<"p", "r", "a", "g", "m", "a", " ", "i", "n", "d", "e", "x", "_", "l", "i", "s", "t", "(">>,
     <<"p", "r", "a", "g", "m", "a", " ", "i", "n", "d", "e", "x", "_", "i", "n", "f", "o", "(">>,
     <<"p", "r", "a", "g", "m", "a", " ", "f", "o", "r", "e", "i", "g", "n", "_", "k", "e", "y", "_", "l", "i", "s", "t", "(">>,
     <<"p", "r", "a", "g", "m", "a", " ", "s", "c", "h", "e", "m", "a", "_", "v", "e", "r", "s", "i", "o", "n">>,
     <<"p", "r", "a", "g", "m", "a", " ", "u", "s", "e", "r", "_", "v", "e", "r", "s", "i", "o", "n">>,
     <<"p", "r", "a", "g", "m", "a", " ", "d", "a", "t", "a", "b", "a", "s", "e", "_", "l", "i", "s", "t">>,
     <<"p", "r", "a", "g", "m", "a", " ", "c", "o", "m", "p", "i", "l", "e", "_", "o", "p", "t", "i", "o", "n", "s">> >>

forbiddenKeywords ==
  << <<"i", "n", "s", "e", "r", "t">>, <<"u", "p", "d", "a", "t", "e">>, <<"d", "e", "l", "e", "t", "e">>, <<"d", "r", "o", "p">>, <<"c", "r", "e", "a", "t", "e">>, <<"a", "l", "t", "e", "r">>,
     <<"t", "r", "u", "n", "c", "a", "t", "e">>, <<"r", "e", "p", "l", "a", "c", "e">>, <<"m", "e", "r", "g", "e">>, <<"u", "p", "s", "e", "r", "t">>,
     <<"a", "t", "t", "a", "c", "h">>, <<"d", "e", "t", "a", "c", "h">>, <<"v", "a", "c", "u", "u", "m">>, <<"r", "e", "i", "n", "d", "e", "x">>,
     <<"b", "e", "g", "i", "n">>, <<"c", "o", "m", "m", "i", "t">>, <<"r", "o", "l", "l", "b", "a", "c", "k">>, <<"s", "a", "v", "e", "p", "o", "i", "n", "t">> >>

\* mutant: the keyword pattern without its `\b` word boundaries
KeywordRegexMatchSubstring(s, k) == Contains(s, k)

\* regexp `\b` + keyword + `\b` matches somewhere in s
KeywordRegexMatch(s, k) ==
  \E p \in 1..(Len(s) - Len(k) + 1) :
    /\ SubSeq(s, p, p + Len(k) - 1) = k
    /\ (p = 1 \/ ~IsWordChar(s[p - 1]))
    /\ (p + Len(k) - 1 = Len(s) \/ ~IsWordChar(s[p + Len(k)]))

\* the keywords of the list that match, by their index in the list
MatchingKeywords(n) == {i \in 1..Len(forbiddenKeywords) : KeywordRegexMatch(n, forbiddenKeywords[i])}

\* the first keyword of the list that matches: the loop returns at it
FirstKeyword(n) ==
  forbiddenKeywords[CHOOSE i \in MatchingKeywords(n) : \A j \in MatchingKeywords(n) : i <= j]

Err(kind, kw) == [kind |-> kind, keyword |-> kw]

Nil == Err("nil", <<>>)

\* mutant: a pragma outside the whitelist is left to the general prefix test
HeadCheckNoPragmaError(n) ==
  IF \/ \E i \in 1..Len(allowedPragmas) : HasPrefix(n, allowedPragmas[i])
     \/ \E i \in 1..Len(allowedPrefixes) : HasPrefix(n, allowedPrefixes[i])
  THEN Nil
  ELSE Err("NotReadOnly", <<>>)

\* the statement-head part of the function: allowed prefix, pragma whitelist
HeadCheck(n) ==
  IF HasPrefix(n, <<"p", "r", "a", "g", "m", "a">>)
  THEN IF \E i \in 1..Len(allowedPragmas) : HasPrefix(n, allowedPragmas[i])
       THEN Nil
       ELSE Err("PragmaNotAllowed", <<>>)
  ELSE IF \E i \in 1..Len(allowedPrefixes) : HasPrefix(n, allowedPrefixes[i])
       THEN Nil
       ELSE Err("NotReadOnly", <<>>)

\* a variant of the first scan that lets every text pass
KeywordCheckSkipped(n) == Nil

\* the first scan for forbidden keywords
KeywordCheck(n) ==
  IF MatchingKeywords(n) # {}
  THEN Err("ForbiddenKeyword", ToUpper(FirstKeyword(n)))
  ELSE Nil

\* the semicolon check
StatementCheck(n) ==
  IF SplitCount(n, ";") > 2 THEN Err("MultipleStatements", <<>>) ELSE Nil

\* the second scan, run when the text holds both '(' and ')'
SubqueryCheck(n) ==
  IF Contains(n, <<"(">>) /\ Contains(n, <<")">>) /\ MatchingKeywords(n) # {}
  THEN Err("ForbiddenKeywordInSubquery", ToUpper(FirstKeyword(n)))
  ELSE Nil

\* mutant: the keyword scan runs before the statement-head check
ValidateNormalizedKeywordFirst(n) ==
  IF n = <<>> THEN Err("EmptyQuery", <<>>)
  ELSE IF KeywordCheck(n) # Nil THEN KeywordCheck(n)
  ELSE IF HeadCheck(n) # Nil THEN HeadCheck(n)
  ELSE IF StatementCheck(n) # Nil THEN StatementCheck(n)
  ELSE SubqueryCheck(n)

\* mutant: the semicolon check runs before the keyword scan
ValidateNormalizedStatementsFirst(n) ==
  IF n = <<>> THEN Err("EmptyQuery", <<>>)
  ELSE IF HeadCheck(n) # Nil THEN HeadCheck(n)
  ELSE IF StatementCheck(n) # Nil THEN StatementCheck(n)
  ELSE IF KeywordCheck(n) # Nil THEN KeywordCheck(n)
  ELSE SubqueryCheck(n)

\* the checks of the function on the normalized text, in the order of the code
ValidateNormalized(n) ==
  IF n = <<>> THEN Err("EmptyQuery", <<>>)
  ELSE IF HeadCheck(n) # Nil THEN HeadCheck(n)
  ELSE IF KeywordCheck(n) # Nil THEN KeywordCheck(n)
  ELSE IF StatementCheck(n) # Nil THEN StatementCheck(n)
  ELSE SubqueryCheck(n)

ValidateReadOnlyQuery(q) == ValidateNormalized(Normalize(q))

(***************************************************************************)
(* Inputs of the validator                                                 *)
(***************************************************************************)
\* comments, keywords and statement separators
CommentLexemes ==
  { <<"s", "e", "l", "e", "c", "t">>, <<"d", "r", "o", "p">>, <<"-", "-">>, <<"/", "*">>, <<"*", "/">>, <<"\n">>, <<";">> }

\* words, letter case, word boundaries and parentheses
WordLexemes ==
  { <<"S", "E", "L", "E", "C", "T">>, <<"D", "r", "o", "p">>, <<"b", "e", "g", "i", "n">>, <<"x">>, <<" ">>, <<";">>, <<"(">>, <<")">> }

\* pragma statements
PragmaLexemes ==
  { <<"p", "r", "a", "g", "m", "a">>, <<" ">>, <<"u", "s", "e", "r", "_", "v", "e", "r", "s", "i", "o", "n">>, <<"j", "o", "u", "r", "n", "a", "l", "_", "m", "o", "d", "e">>, <<"=">>, <<"1">>, <<"d", "r", "o", "p">>, <<";">> }

Alphabets == {CommentLexemes, WordLexemes, PragmaLexemes}

LexemeQueries == {Concat(ls) : ls \in UNION {BoundedSeq(A, MaxLen) : A \in Alphabets}}

\* non-word characters placed around a keyword
NonWordChars == {" ", "\n", ";", "(", ")", "-", "/", "*", "=", "'", ","}

KeywordSet == Range(forbiddenKeywords)

\* a non-word character, a forbidden keyword, a non-word character, alone or
\* after an allowed statement head
BoundaryQueries ==
  {h \o <<a>> \o k \o <<b>> :
     h \in {<<>>} \cup Range(allowedPrefixes), a \in NonWordChars,
     k \in KeywordSet, b \in NonWordChars}

\* queries of the test tables of query_test.go
NamedQueries ==
  { <<"S", "E", "L", "E", "C", "T", " ", "*", " ", "F", "R", "O", "M", " ", "l", "o", "g", "s">>,
    <<"W", "I", "T", "H", " ", "s", "t", "a", "t", "s", " ", "A", "S", " ", "(", "S", "E", "L", "E", "C", "T", " ", "C", "O", "U", "N", "T", "(", "*", ")", " ", "a", "s", " ", "c", "n", "t", " ", "F", "R", "O", "M", " ", "l", "o", "g", "s", ")", " ", "S", "E", "L", "E", "C", "T", " ", "*", " ", "F", "R", "O", "M", " ", "s", "t", "a", "t", "s">>,
    <<"E", "X", "P", "L", "A", "I", "N", " ", "S", "E", "L", "E", "C", "T", " ", "*", " ", "F", "R", "O", "M", " ", "l", "o", "g", "s">>,
    <<"D", "R", "O", "P", " ", "T", "A", "B", "L", "E", " ", "l", "o", "g", "s">>,
    <<"B", "E", "G", "I", "N", ";", " ", "S", "E", "L", "E", "C", "T", " ", "*", " ", "F", "R", "O", "M", " ", "l", "o", "g", "s", ";", " ", "C", "O", "M", "M", "I", "T", ";">>,
    <<"S", "E", "L", "E", "C", "T", " ", "*", " ", "F", "R", "O", "M", " ", "l", "o", "g", "s", ";", " ", "D", "R", "O", "P", " ", "T", "A", "B", "L", "E", " ", "l", "o", "g", "s", ";">>,
    <<"S", "E", "L", "E", "C", "T", " ", "*", " ", "F", "R", "O", "M", " ", "(", "I", "N", "S", "E", "R", "T", " ", "I", "N", "T", "O", " ", "l", "o", "g", "s", " ", "V", "A", "L", "U", "E", "S", " ", "(", "1", ")", ")">>,
    <<"S", "E", "L", "E", "C", "T", " ", "*", " ", "F", "R", "O", "M", " ", "l", "o", "g", "s", ";", " ", "S", "E", "L", "E", "C", "T", " ", "1", ";", " ", "S", "E", "L", "E", "C", "T", " ", "2", ";">>,
    <<"S", "E", "L", "E", "C", "T", " ", "*", " ", "F", "R", "O", "M", " ", "l", "o", "g", "s", " ", "W", "H", "E", "R", "E", " ", "u", "s", "e", "r", "n", "a", "m", "e", " ", "=", " ", "'", "d", "r", "o", "p", "b", "o", "x", "_", "u", "s", "e", "r", "'">>,
    <<"S", "E", "L", "E", "C", "T", " ", "*", " ", "F", "R", "O", "M", " ", "l", "o", "g", "s", " ", "/", "*", " ", "t", "h", "i", "s", " ", "i", "s", " ", "a", " ", "c", "o", "m", "m", "e", "n", "t", " ", "*", "/">>,
    <<"-", "-", " ", "t", "h", "i", "s", " ", "i", "s", " ", "j", "u", "s", "t", " ", "a", " ", "c", "o", "m", "m", "e", "n", "t">>,
    <<"-", "-", " ", "T", "h", "i", "s", " ", "i", "s", " ", "a", " ", "c", "o", "m", "m", "e", "n", "t", "\n", "S", "E", "L", "E", "C", "T", " ", "*", " ", "F", "R", "O", "M", " ", "l", "o", "g", "s", " ", "-", "-", " ", "A", "n", "o", "t", "h", "e", "r", " ", "c", "o", "m", "m", "e", "n", "t">>,
    <<"P", "R", "A", "G", "M", "A", " ", "t", "a", "b", "l", "e", "_", "i", "n", "f", "o", "(", "l", "o", "g", "s", ")">>,
    <<"P", "R", "A", "G", "M", "A", " ", "i", "n", "d", "e", "x", "_", "l", "i", "s", "t", "(", "l", "o", "g", "s", ")">>,
    <<"P", "R", "A", "G", "M", "A", " ", "i", "n", "d", "e", "x", "_", "i", "n", "f", "o", "(", "i", "d", "x", "_", "l", "o", "g", "s", "_", "u", "s", "e", "r", "n", "a", "m", "e", ")">>,
    <<"P", "R", "A", "G", "M", "A", " ", "f", "o", "r", "e", "i", "g", "n", "_", "k", "e", "y", "_", "l", "i", "s", "t", "(", "l", "o", "g", "s", ")">>,
    <<"P", "R", "A", "G", "M", "A", " ", "s", "c", "h", "e", "m", "a", "_", "v", "e", "r", "s", "i", "o", "n">>,
    <<"P", "R", "A", "G", "M", "A", " ", "u", "s", "e", "r", "_", "v", "e", "r", "s", "i", "o", "n">>,
    <<"P", "R", "A", "G", "M", "A", " ", "d", "a", "t", "a", "b", "a", "s", "e", "_", "l", "i", "s", "t">>,
    <<"P", "R", "A", "G", "M", "A", " ", "c", "o", "m", "p", "i", "l", "e", "_", "o", "p", "t", "i", "o", "n", "s">>,
    <<"P", "R", "A", "G", "M", "A", " ", "j", "o", "u", "r", "n", "a", "l", "_", "m", "o", "d", "e", " ", "=", " ", "W", "A", "L">>,
    <<"P", "R", "A", "G", "M", "A", " ", "s", "y", "n", "c", "h", "r", "o", "n", "o", "u", "s", " ", "=", " ", "F", "U", "L", "L">>,
    <<"P", "R", "A", "G", "M", "A", " ", "f", "o", "r", "e", "i", "g", "n", "_", "k", "e", "y", "s", " ", "=", " ", "O", "N">>,
    <<"P", "R", "A", "G", "M", "A", " ", "e", "v", "i", "l", "_", "s", "e", "t", "t", "i", "n", "g", " ", "=", " ", "1">> }

\* further queries: a write pragma of a whitelisted name, two statements, and
\* block comments that span lines or hold "--"
ProbeQueries ==
  { <<"P", "R", "A", "G", "M", "A", " ", "u", "s", "e", "r", "_", "v", "e", "r", "s", "i", "o", "n", " ", "=", " ", "5">>,
    <<"S", "E", "L", "E", "C", "T", " ", "1", ";", " ", "S", "E", "L", "E", "C", "T", " ", "2">>,
    <<"S", "E", "L", "E", "C", "T", " ", "1", " ", "/", "*", " ", "a", "\n", "D", "R", "O", "P", " ", "*", "/">>,
    <<"S", "E", "L", "E", "C", "T", " ", "1", " ", "/", "*", " ", "-", "-", " ", "*", "/", ";", " ", "D", "R", "O", "P", " ", "T", "A", "B", "L", "E", " ", "l", "o", "g", "s">> }

Queries == LexemeQueries \cup BoundaryQueries \cup NamedQueries \cup ProbeQueries

(***************************************************************************)
(* The query command: executeSingleQuery and enterInteractiveMode          *)
(***************************************************************************)
\* the placeholder that both modes replace by the --table flag
TablePlaceholder == <<"{", "t", "a", "b", "l", "e", "}">>

\* the query of showTables, the handler of the ".tables" line
TablesQuery == <<"S", "E", "L", "E", "C", "T", " ", "n", "a", "m", "e", " ", "F", "R", "O", "M", " ", "s", "q", "l", "i", "t", "e", "_", "m", "a", "s", "t", "e", "r", " ", "W", "H", "E", "R", "E", " ", "t", "y", "p", "e", "=", "'", "t", "a", "b", "l", "e", "'", " ", "O", "R", "D", "E", "R", " ", "B", "Y", " ", "n", "a", "m", "e">>

\* one call made by a handler: the function, its argument, what it returned
Call(fn, arg, ret) == [fn |-> fn, arg |-> arg, ret |-> ret]

\* what database.ExecuteQuery can return: nil or an error of the engine
DbResults == {Nil, Err("QueryExecutionFailed", <<>>)}

\* mutant: the input is validated before the placeholder is replaced
QueryCallsValidateRaw(raw, tbl, dbRet) ==
  LET q == ReplaceAll(raw, TablePlaceholder, tbl)
      v == ValidateReadOnlyQuery(raw)
  IN IF v # Nil
     THEN << Call("ValidateReadOnlyQuery", raw, v) >>
     ELSE << Call("ValidateReadOnlyQuery", raw, v), Call("ExecuteQuery", q, dbRet) >>

\* a variant that executes the query whatever validation returned
QueryCallsExecuteAnyway(raw, tbl, dbRet) ==
  LET q == ReplaceAll(raw, TablePlaceholder, tbl)
      v == ValidateReadOnlyQuery(q)
  IN << Call("ValidateReadOnlyQuery", q, v), Call("ExecuteQuery", q, dbRet) >>

\* the calls both modes make for a user query: the placeholder is replaced,
\* the result is validated, and it is executed when validation returned nil
QueryCalls(raw, tbl, dbRet) ==
  LET q == ReplaceAll(raw, TablePlaceholder, tbl)
      v == ValidateReadOnlyQuery(q)
  IN IF v # Nil
     THEN << Call("ValidateReadOnlyQuery", q, v) >>
     ELSE << Call("ValidateReadOnlyQuery", q, v), Call("ExecuteQuery", q, dbRet) >>

\* the lines typed at the prompt and the values of the --sql flag
LineLexemes ==
  { <<"s", "e", "l", "e", "c", "t", " ">>, <<"d", "r", "o", "p">>, <<"{", "t", "a", "b", "l", "e", "}">>, <<" ">>, <<"e", "x", "i", "t">>, <<"q", "u", "i", "t">>, <<".", "t", "a", "b", "l", "e", "s">> }

Lines == {Concat(ls) : ls \in BoundedSeq(LineLexemes, MaxLine)}

\* values of the --table flag
TableNames == { <<"l", "o", "g", "s">>, <<"d", "r", "o", "p">> }

(***************************************************************************)
(* Numbers in decimal notation (strconv)                                   *)
(***************************************************************************)
DigitChars == <<"0", "1", "2", "3", "4", "5", "6", "7", "8", "9">>

IsDigit(c) == c \in Digits

AllDigits(s) == \A i \in 1..Len(s) : IsDigit(s[i])

DigitValue(c) == (CHOOSE i \in 1..10 : DigitChars[i] = c) - 1

\* the value of a short run of digits
RECURSIVE Num(_)
Num(s) == IF s = <<>> THEN 0 ELSE 10 * Num(SubSeq(s, 1, Len(s) - 1)) + DigitValue(s[Len(s)])

\* a run of digits without its leading zeros
RECURSIVE StripZeros(_)
StripZeros(s) == IF s # <<>> /\ Head(s) = "0" THEN StripZeros(Tail(s)) ELSE s

\* a <= b for two runs of digits of the same length
RECURSIVE LexLeq(_, _)
LexLeq(a, b) ==
  IF a = <<>> THEN TRUE
  ELSE IF DigitValue(Head(a)) # DigitValue(Head(b))
       THEN DigitValue(Head(a)) < DigitValue(Head(b))
       ELSE LexLeq(Tail(a), Tail(b))

\* a <= b for two natural numbers written in digits: the numbers of the code
\* exceed the integers of the model checker, so they are compared as written
NatLeq(a, b) ==
  LET x == StripZeros(a)
      y == StripZeros(b)
  IN Len(x) < Len(y) \/ (Len(x) = Len(y) /\ LexLeq(x, y))

HasSign(s) == s # <<>> /\ Head(s) \in {"+", "-"}

Unsigned(s) == IF HasSign(s) THEN Tail(s) ELSE s

IsNegative(s) == s # <<>> /\ Head(s) = "-"

MaxInt64 == <<"9", "2", "2", "3", "3", "7", "2", "0", "3", "6", "8", "5", "4", "7", "7", "5", "8", "0", "7">>

MinInt64Magnitude == <<"9", "2", "2", "3", "3", "7", "2", "0", "3", "6", "8", "5", "4", "7", "7", "5", "8", "0", "8">>

\* strconv.ParseInt(value, 10, 64) returns no error: an optional sign, one or
\* more digits, a value in the range of int64
ParseIntOk(s) ==
  /\ Unsigned(s) # <<>>
  /\ AllDigits(Unsigned(s))
  /\ IF IsNegative(s) THEN NatLeq(Unsigned(s), MinInt64Magnitude)
                      ELSE NatLeq(Unsigned(s), MaxInt64)

\* lo <= timestamp && timestamp <= hi for the parsed integer of s
IntBetween(s, lo, hi) ==
  /\ ~(IsNegative(s) /\ StripZeros(Unsigned(s)) # <<>>)
  /\ NatLeq(lo, Unsigned(s))
  /\ NatLeq(Unsigned(s), hi)

\* the special values of strconv.ParseFloat: a signed "inf" or "infinity" and
\* an unsigned "nan", in any letter case
IsSpecialFloat(s) ==
  \/ ToLower(Unsigned(s)) \in { <<"i", "n", "f">>, <<"i", "n", "f", "i", "n", "i", "t", "y">> }
  \/ ToLower(s) = <<"n", "a", "n">>

\* the decimal mantissa: digits with at most one point and at least one digit
IsMantissa(s) ==
  /\ \E i \in 1..Len(s) : IsDigit(s[i])
  /\ \A i \in 1..Len(s) : IsDigit(s[i]) \/ s[i] = "."
  /\ Cardinality({i \in 1..Len(s) : s[i] = "."}) <= 1

\* the exponent that follows 'e': an optional sign and one or more digits
IsExponent(s) == Unsigned(s) # <<>> /\ AllDigits(Unsigned(s))

\* the digits of the mantissa before its point
IntegerPart(s) ==
  IF \E i \in 1..Len(s) : s[i] = "."
  THEN SubSeq(s, 1, (CHOOSE i \in 1..Len(s) : s[i] = ".") - 1)
  ELSE s

\* ParseFloat's range error: the value is beyond the largest float64, about
\* 1.8e308 (decided here by the decimal exponent alone)
FloatOverflows(mant, exp) ==
  /\ \E i \in 1..Len(mant) : IsDigit(mant[i]) /\ mant[i] # "0"
  /\ ~IsNegative(exp)
  /\ LET e == StripZeros(Unsigned(exp))
         d == Len(StripZeros(IntegerPart(mant)))
     IN Len(e) > 3 \/ Num(e) + d > 309

\* strconv.ParseFloat(value, 64) returns no error, for the decimal and the
\* special forms (the hexadecimal form and the digit separator '_' need
\* characters the values of the model do not hold)
ParseFloatOk(s) ==
  \/ IsSpecialFloat(s)
  \/ LET u == Unsigned(s)
         es == {i \in 1..Len(u) : u[i] \in {"e", "E"}}
     IN IF es = {}
        THEN IsMantissa(u) /\ ~FloatOverflows(u, <<>>)
        ELSE LET e == CHOOSE i \in es : \A j \in es : i <= j
                 mant == SubSeq(u, 1, e - 1)
                 exp == SubSeq(u, e + 1, Len(u))
             IN IsMantissa(mant) /\ IsExponent(exp) /\ ~FloatOverflows(mant, exp)

(***************************************************************************)
(* time.Parse for the layouts of isTimestamp                               *)
(***************************************************************************)
shortDayNames == << <<"s", "u", "n">>, <<"m", "o", "n">>, <<"t", "u", "e">>, <<"w", "e", "d">>, <<"t", "h", "u">>, <<"f", "r", "i">>, <<"s", "a", "t">> >>

shortMonthNames ==
  << <<"j", "a", "n">>, <<"f", "e", "b">>, <<"m", "a", "r">>, <<"a", "p", "r">>, <<"m", "a", "y">>, <<"j", "u", "n">>,
     <<"j", "u", "l">>, <<"a", "u", "g">>, <<"s", "e", "p">>, <<"o", "c", "t">>, <<"n", "o", "v">>, <<"d", "e", "c">> >>

\* the rest of s after its first n characters
DropFirst(s, n) == SubSeq(s, n + 1, Len(s))

\* the number of leading characters of s that satisfy the set cs
RECURSIVE LeadingIn(_, _)
LeadingIn(s, cs) == IF s # <<>> /\ Head(s) \in cs THEN 1 + LeadingIn(Tail(s), cs) ELSE 0

IsLeapYear(y) == y % 4 = 0 /\ (y % 100 # 0 \/ y % 400 = 0)

\* daysIn of package time
DaysIn(month, year) ==
  IF month = 2 THEN (IF IsLeapYear(year) THEN 29 ELSE 28)
  ELSE IF month \in {4, 6, 9, 11} THEN 30 ELSE 31

\* getnum: one or two digits, exactly two when fixed; 0 when there is none
GetNumLen(v, fixed) ==
  IF v = <<>> \/ ~IsDigit(v[1]) THEN 0
  ELSE IF Len(v) >= 2 /\ IsDigit(v[2]) THEN 2
  ELSE IF fixed THEN 0 ELSE 1

\* the length of a fractional second that follows the seconds in the value
\* though the layout has none: a point or comma and the digits after it
FractionLen(v) ==
  IF Len(v) >= 2 /\ v[1] \in {".", ","} /\ IsDigit(v[2])
  THEN 1 + LeadingIn(Tail(v), Digits)
  ELSE 0

\* parseGMT: "GMT" and an optional signed hour
GmtLen(v) ==
  LET r == DropFirst(v, 3)
      n == IF r = <<>> THEN 0 ELSE LeadingIn(Tail(r), Digits)
  IN IF r = <<>> \/ r[1] \notin {"+", "-"} \/ n = 0 THEN 3
     ELSE IF n > 2 \/ Num(SubSeq(r, 2, n + 1)) > 23 THEN 0
     ELSE 3 + 1 + n

\* parseTimeZone: the length of the zone abbreviation at the head of v, 0 when
\* there is none
TimeZoneLen(v) ==
  LET n == LeadingIn(v, Range(UpperLetters))
      m == IF n > 6 THEN 6 ELSE n
      d == IF v = <<>> THEN 0 ELSE LeadingIn(Tail(v), Digits)
  IN IF Len(v) < 3 THEN 0
     ELSE IF Len(v) >= 4 /\ SubSeq(v, 1, 4) \in { <<"C", "h", "S", "T">>, <<"M", "e", "S", "T">> } THEN 4
     ELSE IF SubSeq(v, 1, 3) = <<"G", "M", "T">> THEN GmtLen(v)
     ELSE IF v[1] \in {"+", "-"}
          THEN IF d = 0 \/ d > 2 \/ Num(SubSeq(v, 2, d + 1)) > 23 THEN 0 ELSE 1 + d
     ELSE IF m = 3 THEN 3
     ELSE IF m = 4 /\ (v[4] = "T" \/ SubSeq(v, 1, 4) = <<"W", "I", "T", "A">>) THEN 4
     ELSE IF m = 5 /\ v[5] = "T" THEN 5
     ELSE 0

\* the index of the name of tab that s starts with, letter case ignored, or 0
LookupName(tab, s) ==
  LET hits == {i \in 1..Len(tab) : HasPrefix(ToLower(s), tab[i])}
  IN IF hits = {} THEN 0 ELSE CHOOSE i \in hits : \A j \in hits : i <= j

\* the elements of a layout that stand for a field; any other element is a
\* character the value must hold at that place
LayoutFields == {"2006", "01", "02", "2", "15", "04", "05", ".000", "Z07:00", "Mon", "Jan", "MST"}

\* time.Parse(layout, v) returns no error.  The layout is a sequence of its
\* elements; f holds the year, month and day read so far.
RECURSIVE ParseLayout(_, _, _)
ParseLayout(layout, v, f) ==
  IF layout = <<>>
  THEN v = <<>> /\ f.day >= 1 /\ f.day <= DaysIn(f.month, f.year)
  ELSE
    LET e == Head(layout)
        rest == Tail(layout)
        n2 == GetNumLen(v, TRUE)
        n1 == GetNumLen(v, FALSE)
    IN CASE e = "2006" ->
              /\ Len(v) >= 4
              /\ AllDigits(SubSeq(v, 1, 4))
              /\ ParseLayout(rest, DropFirst(v, 4), [f EXCEPT !.year = Num(SubSeq(v, 1, 4))])
         [] e = "01" ->
              /\ n2 = 2
              /\ Num(SubSeq(v, 1, 2)) \in 1..12
              /\ ParseLayout(rest, DropFirst(v, 2), [f EXCEPT !.month = Num(SubSeq(v, 1, 2))])
         [] e = "02" ->
              /\ n2 = 2
              /\ ParseLayout(rest, DropFirst(v, 2), [f EXCEPT !.day = Num(SubSeq(v, 1, 2))])
         [] e = "2" ->
              /\ n1 > 0
              /\ ParseLayout(rest, DropFirst(v, n1), [f EXCEPT !.day = Num(SubSeq(v, 1, n1))])
         [] e = "15" ->
              /\ n1 > 0
              /\ Num(SubSeq(v, 1, n1)) < 24
              /\ ParseLayout(rest, DropFirst(v, n1), f)
         [] e = "04" ->
              /\ n2 = 2
              /\ Num(SubSeq(v, 1, 2)) < 60
              /\ ParseLayout(rest, DropFirst(v, 2), f)
         [] e = "05" ->
              /\ n2 = 2
              /\ Num(SubSeq(v, 1, 2)) < 60
              /\ LET after == DropFirst(v, 2)
                     skip == IF rest # <<>> /\ Head(rest) = ".000" THEN 0 ELSE FractionLen(after)
                 IN ParseLayout(rest, DropFirst(after, skip), f)
         [] e = ".000" ->
              /\ Len(v) >= 4
              /\ v[1] \in {".", ","}
              /\ AllDigits(SubSeq(v, 2, 4))
              /\ ParseLayout(rest, DropFirst(v, 4), f)
         [] e = "Z07:00" ->
              IF v # <<>> /\ v[1] = "Z"
              THEN ParseLayout(rest, Tail(v), f)
              ELSE /\ Len(v) >= 6
                   /\ v[1] \in {"+", "-"}
                   /\ v[4] = ":"
                   /\ AllDigits(SubSeq(v, 2, 3))
                   /\ AllDigits(SubSeq(v, 5, 6))
                   /\ Num(SubSeq(v, 2, 3)) <= 24
                   /\ Num(SubSeq(v, 5, 6)) <= 60
                   /\ ParseLayout(rest, DropFirst(v, 6), f)
         [] e = "Mon" ->
              /\ LookupName(shortDayNames, v) > 0
              /\ ParseLayout(rest, DropFirst(v, 3), f)
         [] e = "Jan" ->
              /\ LookupName(shortMonthNames, v) > 0
              /\ ParseLayout(rest, DropFirst(v, 3), [f EXCEPT !.month = LookupName(shortMonthNames, v)])
         [] e = "MST" ->
              /\ TimeZoneLen(v) > 0
              /\ ParseLayout(rest, DropFirst(v, TimeZoneLen(v)), f)
         [] OTHER ->
              /\ v # <<>>
              /\ v[1] = e
              /\ ParseLayout(rest, Tail(v), f)

\* time.Parse(layout, value) returns no error
TimeParseOk(layout, value) == ParseLayout(layout, value, [year |-> 0, month |-> 1, day |-> 1])

(***************************************************************************)
(* Type inference (internal/parser/schema.go)                              *)
(***************************************************************************)
TypeText == "TEXT"
TypeInteger == "INTEGER"
TypeReal == "REAL"
TypeTimestamp == "TIMESTAMP"
TypeBoolean == "BOOLEAN"

ColumnTypes == {TypeText, TypeInteger, TypeReal, TypeTimestamp, TypeBoolean}

\* the layouts of isTimestamp, each as the sequence of its elements
timestampFormats ==
  << <<"2006", "-", "01", "-", "02", "T", "15", ":", "04", ":", "05", "Z07:00">>,
     <<"2006", "-", "01", "-", "02", " ", "15", ":", "04", ":", "05">>,
     <<"2006", "-", "01", "-", "02", "T", "15", ":", "04", ":", "05">>,
     <<"2006", "-", "01", "-", "02", " ", "15", ":", "04", ":", "05", ".000">>,
     <<"01", "/", "02", "/", "2006", " ", "15", ":", "04", ":", "05">>,
     <<"2006", "-", "01", "-", "02">>,
     <<"Mon", " ", "Jan", " ", "2", " ", "15", ":", "04", ":", "05", " ", "MST", " ", "2006">>,
     <<"Mon", " ", "Jan", " ", "2", " ", "15", ":", "04", ":", "05", " ", "2006">> >>

MinUnixSeconds == <<"3", "1", "5", "5", "3", "2", "8", "0", "0">>
MaxUnixSeconds == <<"2", "5", "2", "4", "6", "0", "8", "0", "0", "0">>
MinUnixMillis == <<"3", "1", "5", "5", "3", "2", "8", "0", "0", "0", "0", "0">>
MaxUnixMillis == <<"2", "5", "2", "4", "6", "0", "8", "0", "0", "0", "0", "0", "0">>

\* mutant: the lower bounds of the two ranges are exclusive
isTimestampExclusive(value) ==
  \/ /\ ParseIntOk(value)
     /\ \/ IntBetween(value, MinUnixSeconds, MaxUnixSeconds) /\ ~IntBetween(value, MinUnixSeconds, MinUnixSeconds)
        \/ IntBetween(value, MinUnixMillis, MaxUnixMillis) /\ ~IntBetween(value, MinUnixMillis, MinUnixMillis)
  \/ \E i \in 1..Len(timestampFormats) : TimeParseOk(timestampFormats[i], value)

\* isTimestamp: a UNIX time in seconds or milliseconds between 1980 and 2050,
\* or a value that one of the layouts parses
isTimestamp(value) ==
  \/ /\ ParseIntOk(value)
     /\ \/ IntBetween(value, MinUnixSeconds, MaxUnixSeconds)
        \/ IntBetween(value, MinUnixMillis, MaxUnixMillis)
  \/ \E i \in 1..Len(timestampFormats) : TimeParseOk(timestampFormats[i], value)

\* isBoolean
isBoolean(value) ==
  LET lower == ToLower(value)
  IN \/ lower = <<"t", "r", "u", "e">> \/ lower = <<"f", "a", "l", "s", "e">>
     \/ lower = <<"y", "e", "s">> \/ lower = <<"n", "o">>
     \/ lower = <<"y">> \/ lower = <<"n">>

\* inferValueType
inferValueType(value) ==
  IF ParseIntOk(value)
  THEN (IF isTimestamp(value) THEN TypeTimestamp ELSE TypeInteger)
  ELSE IF ParseFloatOk(value) THEN TypeReal
  ELSE IF isBoolean(value) THEN TypeBoolean
  ELSE IF isTimestamp(value) THEN TypeTimestamp
  ELSE TypeText

\* the values that type inference is run on
ValueLexemes ==
  { <<"0">>, <<"1">>, <<"-">>, <<"+">>, <<".">>, <<"e">>, <<"y">>, <<"N", "o">>, <<"i", "n", "f">>, <<"x">> }

LexemeValues == {Concat(ls) : ls \in BoundedSeq(ValueLexemes, MaxValueLen)}

\* numbers at the ends of the two ranges and of int64
BoundaryValues ==
  { <<"3", "1", "5", "5", "3", "2", "7", "9", "9">>, <<"3", "1", "5", "5", "3", "2", "8", "0", "0">>, <<"3", "1", "5", "5", "3", "2", "8", "0", "1">>,
    <<"2", "5", "2", "4", "6", "0", "7", "9", "9", "9">>, <<"2", "5", "2", "4", "6", "0", "8", "0", "0", "0">>, <<"2", "5", "2", "4", "6", "0", "8", "0", "0", "1">>,
    <<"3", "1", "5", "5", "3", "2", "7", "9", "9", "9", "9", "9">>, <<"3", "1", "5", "5", "3", "2", "8", "0", "0", "0", "0", "0">>, <<"3", "1", "5", "5", "3", "2", "8", "0", "0", "0", "0", "1">>,
    <<"2", "5", "2", "4", "6", "0", "7", "9", "9", "9", "9", "9", "9">>, <<"2", "5", "2", "4", "6", "0", "8", "0", "0", "0", "0", "0", "0">>, <<"2", "5", "2", "4", "6", "0", "8", "0", "0", "0", "0", "0", "1">>,
    <<"+", "3", "1", "5", "5", "3", "2", "8", "0", "0">>, <<"-", "3", "1", "5", "5", "3", "2", "8", "0", "0">>, <<"0", "3", "1", "5", "5", "3", "2", "8", "0", "0">>, <<"1", "5", "8", "7", "5", "0", "4", "6", "3", "8">>,
    <<"9", "2", "2", "3", "3", "7", "2", "0", "3", "6", "8", "5", "4", "7", "7", "5", "8", "0", "7">>, <<"9", "2", "2", "3", "3", "7", "2", "0", "3", "6", "8", "5", "4", "7", "7", "5", "8", "0", "8">>,
    <<"-", "9", "2", "2", "3", "3", "7", "2", "0", "3", "6", "8", "5", "4", "7", "7", "5", "8", "0", "8">>, <<"-", "9", "2", "2", "3", "3", "7", "2", "0", "3", "6", "8", "5", "4", "7", "7", "5", "8", "0", "9">>,
    <<"1", "e", "3", "0", "8">>, <<"1", "e", "4", "0", "0">>, <<"0", "e", "4", "0", "0">>, <<"1", "E", "5">>, <<"3", ".", "1", "4">>, <<"N", "a", "N">>, <<"-", "I", "n", "f", "i", "n", "i", "t", "y">>, <<"+", "n", "a", "n">> }

\* values of the test table of schema_test.go and dates around it
NamedValues ==
  { <<"1", "2", "3">>, <<"-", "4", "5", "6">>, <<"0">>, <<"1">>, <<"1", "2", "3", ".", "4", "5">>, <<"-", "6", "7", ".", "8", "9">>, <<"0", ".", "0">>,
    <<"t", "r", "u", "e">>, <<"f", "a", "l", "s", "e">>, <<"T", "R", "U", "E">>, <<"F", "a", "l", "s", "e">>, <<"y", "e", "s">>, <<"n", "o">>, <<"Y">>, <<"n">>,
    <<"2", "0", "2", "0", "-", "0", "4", "-", "1", "5", "T", "1", "0", ":", "3", "0", ":", "0", "0", "Z">>, <<"2", "0", "2", "0", "-", "0", "4", "-", "1", "5", "T", "1", "0", ":", "3", "0", ":", "0", "0", "+", "0", "2", ":", "0", "0">>,
    <<"2", "0", "2", "0", "-", "0", "4", "-", "1", "5", " ", "1", "0", ":", "3", "0", ":", "0", "0">>, <<"2", "0", "2", "0", "-", "0", "4", "-", "1", "5", "T", "1", "0", ":", "3", "0", ":", "0", "0">>,
    <<"2", "0", "2", "0", "-", "0", "4", "-", "1", "5", " ", "1", "0", ":", "3", "0", ":", "0", "0", ".", "1", "2", "3">>, <<"2", "0", "2", "0", "-", "0", "4", "-", "1", "5", " ", "1", "0", ":", "3", "0", ":", "0", "0", ".", "1", "2">>,
    <<"0", "4", "/", "1", "5", "/", "2", "0", "2", "0", " ", "1", "0", ":", "3", "0", ":", "0", "0">>, <<"2", "0", "2", "0", "-", "0", "4", "-", "1", "5">>, <<"2", "0", "2", "0", "-", "4", "-", "1", "5">>,
    <<"2", "0", "2", "1", "-", "0", "2", "-", "2", "9">>, <<"2", "0", "2", "0", "-", "0", "2", "-", "2", "9">>, <<"2", "0", "2", "0", "-", "1", "3", "-", "0", "1">>, <<"2", "0", "2", "0", "-", "0", "4", "-", "1", "5", " ", "2", "4", ":", "0", "0", ":", "0", "0">>,
    <<"2", "0", "2", "0", "-", "0", "4", "-", "1", "5", " ", "9", ":", "0", "5", ":", "0", "0">>,
    <<"W", "e", "d", " ", "A", "p", "r", " ", "1", "5", " ", "1", "0", ":", "3", "0", ":", "0", "0", " ", "U", "T", "C", " ", "2", "0", "2", "0">>, <<"W", "e", "d", " ", "A", "p", "r", " ", "1", "5", " ", "1", "0", ":", "3", "0", ":", "0", "0", " ", "2", "0", "2", "0">>,
    <<"m", "o", "n", " ", "j", "a", "n", " ", "2", " ", "1", "5", ":", "0", "4", ":", "0", "5", " ", "M", "S", "T", " ", "2", "0", "0", "6">>, <<"W", "e", "d", " ", "A", "p", "r", " ", "1", "5", " ", "1", "0", ":", "3", "0", ":", "0", "0", " ", "G", "M", "T", "+", "2", " ", "2", "0", "2", "0">>,
    <<"W", "e", "d", " ", "A", "p", "r", " ", "1", "5", " ", "1", "0", ":", "3", "0", ":", "0", "0", " ", "u", "t", "c", " ", "2", "0", "2", "0">>,
    <<"1", "5", "8", "7", "5", "0", "4", "6", "3", "8", "0", "0", "0">>, <<"2", "0", "2", "3", "-", "0", "1", "-", "0", "1">>, <<"2", "0", "2", "3", "-", "0", "1", "-", "0", "1", " ", "1", "0", ":", "0", "0", ":", "0", "0">>, <<"2", "0", "2", "3", "-", "0", "1", "-", "0", "1", "T", "1", "0", ":", "0", "0", ":", "0", "0", "Z">>,
    <<"S", "u", "n", " ", "A", "p", "r", " ", "1", "2", " ", "2", "2", ":", "1", "0", ":", "3", "8", " ", "U", "T", "C", " ", "2", "0", "2", "0">>, <<"9", "9", "9", "9", "9", "9", "9", "9", "9", "9", "9", "9", "9", "9">>, <<"n", "o", "t", "-", "a", "-", "n", "u", "m", "b", "e", "r">>, <<"F", "A", "L", "S", "E">>, <<"N">>,
    <<"h", "e", "l", "l", "o">>, <<"u", "s", "e", "r", "1", "2", "3">>, <<"u", "p", "l", "o", "a", "d">>, <<>>, <<" ">>, <<"1", "2", "a", "b", "c">>, <<"t", "r", "u", "t", "h", "y">> }

Values == LexemeValues \cup BoundaryValues \cup NamedValues

(***************************************************************************)
(* Column type detection (schema.go: detectColumnType, getMostCommonType)  *)
(***************************************************************************)
\* config.SchemaDetectionSampleSize
SchemaDetectionSampleSize == 1000

\* config.TypeInferenceThreshold, 0.8, as the fraction ThresholdNum/ThresholdDen
ThresholdNum == 4

ThresholdDen == 5

Min(a, b) == IF a < b THEN a ELSE b

\* the rows the loop of detectColumnType visits and that have the column;
\* columnIndex counts from 1 here, so Go's columnIndex >= len(row) is
\* columnIndex > Len(row)
SampledRows(recs, columnIndex, sampleSize) ==
  {i \in 1..Min(sampleSize, Len(recs)) : columnIndex <= Len(recs[i])}

\* the rows whose trimmed value is not empty: the ones that vote
VotingRows(recs, columnIndex, sampleSize) ==
  {i \in SampledRows(recs, columnIndex, sampleSize) :
     TrimSpace(recs[i][columnIndex]) # <<>>}

\* typeVotes: the votes of each type
TypeVotes(recs, columnIndex, sampleSize) ==
  [t \in ColumnTypes |->
     Cardinality({i \in VotingRows(recs, columnIndex, sampleSize) :
                    inferValueType(TrimSpace(recs[i][columnIndex])) = t})]

\* a variant with a threshold of one half
MeetsHalf(maxVotes, totalValues) ==
  maxVotes * 2 >= totalValues

\* confidence >= config.TypeInferenceThreshold. The quotient of two counts
\* up to the sample size differs from 4/5 by at least 1/5000 unless it equals
\* it, and float64 division rounds 4/5 to the constant 0.8, so the float64
\* comparison agrees with the comparison of the fractions.
MeetsThreshold(maxVotes, totalValues) ==
  maxVotes * ThresholdDen >= ThresholdNum * totalValues

\* getMostCommonType: the types it can return. The loop visits the map in an
\* unspecified order and keeps the first type whose count exceeds the running
\* maximum, so any type with the largest count can be the common type.
getMostCommonType(votes, totalValues) ==
  IF totalValues = 0 THEN {TypeText}
  ELSE LET present   == {t \in ColumnTypes : votes[t] > 0}
           maxVotes  == IF present = {} THEN 0
                        ELSE CHOOSE m \in {votes[t] : t \in present} :
                               \A t \in present : votes[t] <= m
           commonTypes == IF present = {} THEN {TypeText}
                          ELSE {t \in present : votes[t] = maxVotes}
       IN IF MeetsThreshold(maxVotes, totalValues) THEN commonTypes
          ELSE {TypeText}

\* detectColumnType: the types it can return
detectColumnType(recs, columnIndex, sampleSize) ==
  IF Len(recs) = 0 \/ columnIndex > Len(recs[1]) THEN {TypeText}
  ELSE getMostCommonType(TypeVotes(recs, columnIndex, sampleSize),
                         Cardinality(VotingRows(recs, columnIndex, sampleSize)))

\* longest sample of rows of one column
MaxRows == 5

\* rows of a two-column file seen from its second column: a row that ends
\* after the first field, and rows with an integer, a real, a word and a
\* blank in the second field
SampleRows ==
  { <<<<"a">>>>, <<<<"a">>, <<"7">>>>, <<<<"a">>, <<"1", ".", "5">>>>, <<<<"a">>, <<"x">>>>, <<<<"a">>, <<" ">>>> }

Samples == BoundedSeq(SampleRows, MaxRows)

(***************************************************************************)
(* Column names (schema.go: sanitizeColumnName, shouldIndex)               *)
(***************************************************************************)
\* mutant: the prefix is added when the name holds a digit anywhere
sanitizeColumnNameAnyDigit(name) ==
  LET lower == ToLower(ReplaceAll(ReplaceAll(ReplaceAll(ReplaceAll(ReplaceAll(
                 name, <<" ">>, <<"_">>), <<"-">>, <<"_">>), <<".">>, <<"_">>), <<"/">>, <<"_">>),
                 <<"\\">>, <<"_">>))
      prefixed == IF \E i \in 1..Len(lower) : lower[i] \in Digits
                  THEN <<"c", "o", "l", "_">> \o lower ELSE lower
  IN IF prefixed = <<>> THEN <<"u", "n", "n", "a", "m", "e", "d", "_", "c", "o", "l", "u", "m", "n">> ELSE prefixed

\* sanitizeColumnName: five characters become underscores, the name is
\* lowercased, a leading digit gets the prefix col_, and the empty name
\* becomes unnamed_column
sanitizeColumnName(name) ==
  LET lower == ToLower(ReplaceAll(ReplaceAll(ReplaceAll(ReplaceAll(ReplaceAll(
                 name, <<" ">>, <<"_">>), <<"-">>, <<"_">>), <<".">>, <<"_">>), <<"/">>, <<"_">>),
                 <<"\\">>, <<"_">>))
      prefixed == IF Len(lower) > 0 /\ lower[1] \in Digits
                  THEN <<"c", "o", "l", "_">> \o lower ELSE lower
  IN IF prefixed = <<>> THEN <<"u", "n", "n", "a", "m", "e", "d", "_", "c", "o", "l", "u", "m", "n">> ELSE prefixed

\* longest enumerated column name, counted in lexemes of NameLexemes
MaxNameLen == 3

NameLexemes ==
  { <<"A">>, <<"b">>, <<"1">>, <<" ">>, <<"-">>, <<".">>, <<"/">>, <<"\\">>, <<"_">>, <<"@">>, <<"c", "o", "l", "_">> }

\* headers of the test tables of schema_test.go
NamedHeaders ==
  { <<"t", "i", "m", "e", "s", "t", "a", "m", "p">>, <<"U", "s", "e", "r", " ", "N", "a", "m", "e">>, <<"o", "p", "e", "r", "a", "t", "i", "o", "n", "-", "t", "y", "p", "e">>, <<"f", "i", "l", "e", ".", "s", "i", "z", "e">>, <<"p", "a", "t", "h", "/", "t", "o", "/", "f", "i", "l", "e">>,
    <<"1", "2", "3", "c", "o", "l", "u", "m", "n">>, <<>>, <<"H", "T", "T", "P", "-", "C", "o", "d", "e">>, <<"R", "e", "s", "p", "o", "n", "s", "e", ".", "T", "i", "m", "e">>, <<"u", "s", "e", "r", "@", "d", "o", "m", "a", "i", "n">>, <<"u", "n", "n", "a", "m", "e", "d", "_", "c", "o", "l", "u", "m", "n">> }

Names == {Concat(ls) : ls \in BoundedSeq(NameLexemes, MaxNameLen)} \cup NamedHeaders

\* shouldIndex: the rules of the function in their order
exactMatches ==
  { <<"i", "d">>, <<"t", "i", "m", "e", "s", "t", "a", "m", "p">>, <<"t", "i", "m", "e">>, <<"d", "a", "t", "e">>, <<"u", "s", "e", "r", "n", "a", "m", "e">>, <<"u", "s", "e", "r">>, <<"o", "p", "e", "r", "a", "t", "i", "o", "n">>,
    <<"a", "c", "t", "i", "o", "n">>, <<"m", "e", "t", "h", "o", "d">>, <<"t", "y", "p", "e">>, <<"s", "t", "a", "t", "u", "s">>, <<"c", "o", "d", "e">>, <<"i", "p">>, <<"h", "o", "s", "t">>, <<"d", "o", "m", "a", "i", "n">> }

shouldIndex(columnName) ==
  LET lower == ToLower(columnName)
  IN \/ lower \in exactMatches
     \/ HasSuffix(lower, <<"_", "i", "d">>) \/ HasPrefix(lower, <<"i", "d", "_">>)
     \/ HasSuffix(lower, <<"_", "c", "o", "d", "e">>) \/ HasPrefix(lower, <<"c", "o", "d", "e", "_">>)
          \/ Contains(lower, <<"s", "t", "a", "t", "u", "s", "_", "c", "o", "d", "e">>)
     \/ Contains(lower, <<"u", "s", "e", "r", "_">>) \/ Contains(lower, <<"_", "u", "s", "e", "r">>)
     \/ Contains(lower, <<"t", "i", "m", "e">>) \/ Contains(lower, <<"d", "a", "t", "e">>)
     \/ Contains(lower, <<"c", "r", "e", "a", "t", "e", "d">>) \/ Contains(lower, <<"u", "p", "d", "a", "t", "e", "d">>)
     \/ Contains(lower, <<"i", "p", "_">>) \/ Contains(lower, <<"_", "i", "p">>)
          \/ HasSuffix(lower, <<"_", "a", "d", "d", "r", "e", "s", "s">>)

(***************************************************************************)
(* Schema detection (schema.go: DetectSchema)                              *)
(***************************************************************************)
\* mutant: the index decision is taken on the sanitized name
ColumnsFromSanitizedIndex(headers, types) ==
  [i \in 1..Len(headers) |->
     [Name |-> sanitizeColumnName(headers[i]), Type |-> types[i],
      Nullable |-> FALSE, Index |-> shouldIndex(sanitizeColumnName(headers[i]))]]

\* the columns of the schema, one per header, with the detected types
Columns(headers, types) ==
  [i \in 1..Len(headers) |->
     [Name |-> sanitizeColumnName(headers[i]), Type |-> types[i],
      Nullable |-> FALSE, Index |-> shouldIndex(headers[i])]]

NoSchema == [Name |-> <<>>, Columns |-> <<>>]

\* the sequences of types detectColumnType can return for columns i..n
RECURSIVE DetectedTypes(_, _, _)
DetectedTypes(recs, i, n) ==
  IF i > n THEN {<<>>}
  ELSE {<<t>> \o rest :
          t \in detectColumnType(recs, i, Min(Len(recs), SchemaDetectionSampleSize)),
          rest \in DetectedTypes(recs, i + 1, n)}

\* mutant: the records are checked before the headers
DetectSchemaRecordsFirst(headers, recs, table) ==
  IF Len(recs) = 0 THEN {[schema |-> NoSchema, err |-> "no data records found"]}
  ELSE IF Len(headers) = 0 THEN {[schema |-> NoSchema, err |-> "no headers found"]}
  ELSE {[schema |-> [Name |-> table, Columns |-> Columns(headers, types)],
         err |-> "nil"] : types \in DetectedTypes(recs, 1, Len(headers))}

\* DetectSchema: the results (schema, err) it can return
DetectSchema(headers, recs, table) ==
  IF Len(headers) = 0 THEN {[schema |-> NoSchema, err |-> "no headers found"]}
  ELSE IF Len(recs) = 0 THEN {[schema |-> NoSchema, err |-> "no data records found"]}
  ELSE {[schema |-> [Name |-> table, Columns |-> Columns(headers, types)],
         err |-> "nil"] : types \in DetectedTypes(recs, 1, Len(headers))}

\* most records of a sample
MaxRecords == 2

\* header rows: those of the tests of schema_test.go, rows whose names need
\* sanitizing or collide after it, and one name for each rule of shouldIndex
\* with a near miss
HeaderRows ==
  { <<>>,
    <<<<"t", "i", "m", "e", "s", "t", "a", "m", "p">>, <<"u", "s", "e", "r", "n", "a", "m", "e">>, <<"o", "p", "e", "r", "a", "t", "i", "o", "n">>, <<"s", "i", "z", "e">>>>,
    <<<<"i", "d">>, <<"n", "a", "m", "e">>, <<"e", "m", "a", "i", "l">>>>,
    <<<<"u", "s", "e", "r", "-", "i", "d">>, <<"u", "s", "e", "r", "_", "n", "a", "m", "e">>, <<"u", "s", "e", "r", ".", "e", "m", "a", "i", "l">>, <<"u", "s", "e", "r", "@", "d", "o", "m", "a", "i", "n">>>>,
    <<<<"U", "s", "e", "r", " ", "N", "a", "m", "e">>, <<"u", "s", "e", "r", "_", "n", "a", "m", "e">>>>,
    <<<<>>, <<"1", "2", "3", "c", "o", "l", "u", "m", "n">>>>,
    <<<<"O", "r", "d", "e", "r">>, <<"H", "T", "T", "P", "-", "C", "o", "d", "e">>>> }
  \cup {<<h>> : h \in
    { <<"I", "D">>, <<"u", "s", "e", "r", "_", "i", "d">>, <<"i", "d", "_", "u", "s", "e", "r">>, <<"i", "d", "x">>, <<"v", "a", "l", "i", "d">>, <<"z", "i", "p", "_", "c", "o", "d", "e">>, <<"c", "o", "d", "e", "_", "x">>, <<"c", "o", "d", "e", "s">>,
      <<"x", "s", "t", "a", "t", "u", "s", "_", "c", "o", "d", "e", "x">>, <<"u", "s", "e", "r", "_", "x">>, <<"x", "_", "u", "s", "e", "r">>, <<"u", "s", "e", "r", "s">>, <<"U", "s", "e", "r", " ", "N", "a", "m", "e">>, <<"r", "u", "n", "t", "i", "m", "e">>, <<"u", "p", "d", "a", "t", "e">>,
      <<"c", "r", "e", "a", "t", "e", "d", "_", "a", "t">>, <<"x", "u", "p", "d", "a", "t", "e", "d", "x">>, <<"i", "p", "_", "x">>, <<"x", "_", "i", "p">>, <<"z", "i", "p">>, <<"x", "_", "a", "d", "d", "r", "e", "s", "s">>, <<"a", "d", "d", "r", "e", "s", "s">>,
      <<"H", "o", "s", "t">>, <<"s", "i", "z", "e">>, <<"d", "e", "s", "c", "r", "i", "p", "t", "i", "o", "n">>, <<"r", "a", "n", "d", "o", "m", "_", "f", "i", "e", "l", "d">>, <<"s", "t", "a", "t", "u", "s">>, <<"t", "i", "m", "e">>, <<"d", "a", "t", "e">>,
      <<"u", "s", "e", "r">>, <<"a", "c", "t", "i", "o", "n">>, <<"m", "e", "t", "h", "o", "d">>, <<"t", "y", "p", "e">>, <<"c", "o", "d", "e">>, <<"i", "p">>, <<"d", "o", "m", "a", "i", "n">>, <<"u", "s", "e", "r", " ", "n", "a", "m", "e">> }}

\* rows of the data: a complete one, a short one, and a complete one with
\* an empty field
RecordRows ==
  { <<<<"7">>, <<"x">>, <<"t", "r", "u", "e">>, <<"1", ".", "5">>>>, <<<<"1", ".", "5">>>>, <<<<"8">>, <<>>, <<"f", "a", "l", "s", "e">>, <<"2", ".", "5">>>> }

RecordSets == BoundedSeq(RecordRows, MaxRecords)

\* values of the --table flag of the load command
SchemaTables == { <<"l", "o", "g", "s">>, <<"t", "1">> }

(***************************************************************************)
(* Generated statements (schema.go: SQLType, GenerateCreateTableSQL,       *)
(* GenerateIndexSQL)                                                       *)
(***************************************************************************)
SQLType(t) ==
  CASE t = TypeInteger -> <<"I", "N", "T", "E", "G", "E", "R">>
    [] t = TypeReal -> <<"R", "E", "A", "L">>
    [] t = TypeTimestamp -> <<"D", "A", "T", "E", "T", "I", "M", "E">>
    [] t = TypeBoolean -> <<"B", "O", "O", "L", "E", "A", "N">>
    [] OTHER -> <<"T", "E", "X", "T">>

\* strings.Join
RECURSIVE Join(_, _)
Join(ss, sep) ==
  IF ss = <<>> THEN <<>>
  ELSE IF Len(ss) = 1 THEN ss[1]
  ELSE ss[1] \o sep \o Join(Tail(ss), sep)

GenerateCreateTableSQL(ts) ==
  LET colDef(col) == col.Name \o <<" ">> \o SQLType(col.Type)
                       \o (IF ~col.Nullable THEN <<" ", "N", "O", "T", " ", "N", "U", "L", "L">> ELSE <<>>)
      columns == <<<<"i", "d", " ", "I", "N", "T", "E", "G", "E", "R", " ", "P", "R", "I", "M", "A", "R", "Y", " ", "K", "E", "Y", " ", "A", "U", "T", "O", "I", "N", "C", "R", "E", "M", "E", "N", "T">>>>
                   \o [i \in 1..Len(ts.Columns) |-> colDef(ts.Columns[i])]
  IN <<"C", "R", "E", "A", "T", "E", " ", "T", "A", "B", "L", "E", " ", "I", "F", " ", "N", "O", "T", " ", "E", "X", "I", "S", "T", "S", " ">> \o ts.Name \o <<" ", "(", "\n", " ", " ">>
       \o Join(columns, <<",", "\n", " ", " ">>) \o <<"\n", ")">>

\* mutant: a statement for every column, indexed or not
GenerateIndexSQLAllColumns(ts) ==
  [i \in 1..Len(ts.Columns) |->
     <<"C", "R", "E", "A", "T", "E", " ", "I", "N", "D", "E", "X", " ", "I", "F", " ", "N", "O", "T", " ", "E", "X", "I", "S", "T", "S", " ", "i", "d", "x", "_">> \o ts.Name \o <<"_">> \o ts.Columns[i].Name
       \o <<" ", "O", "N", " ">> \o ts.Name \o <<" ", "(">> \o ts.Columns[i].Name \o <<")">>]

GenerateIndexSQL(ts) ==
  LET indexed == SelectSeq(ts.Columns, LAMBDA col : col.Index)
  IN [i \in 1..Len(indexed) |->
        <<"C", "R", "E", "A", "T", "E", " ", "I", "N", "D", "E", "X", " ", "I", "F", " ", "N", "O", "T", " ", "E", "X", "I", "S", "T", "S", " ", "i", "d", "x", "_">> \o ts.Name \o <<"_">> \o indexed[i].Name
          \o <<" ", "O", "N", " ">> \o ts.Name \o <<" ", "(">> \o indexed[i].Name \o <<")">>]

(***************************************************************************)
(* The SQLite engine behind db.Exec, for the statements the program sends. *)
(* A database is its tables (columns and rows by table name) and its       *)
(* indexes (table and column by index name); names compare without case.   *)
(***************************************************************************)
\* keywords SQLite does not accept as a table or column name
ReservedWords ==
  { <<"a", "d", "d">>, <<"a", "l", "l">>, <<"a", "l", "t", "e", "r">>, <<"a", "n", "d">>, <<"a", "s">>, <<"a", "u", "t", "o", "i", "n", "c", "r", "e", "m", "e", "n", "t">>, <<"b", "e", "t", "w", "e", "e", "n">>, <<"c", "a", "s", "e">>,
    <<"c", "h", "e", "c", "k">>, <<"c", "o", "l", "l", "a", "t", "e">>, <<"c", "o", "m", "m", "i", "t">>, <<"c", "o", "n", "s", "t", "r", "a", "i", "n", "t">>, <<"c", "r", "e", "a", "t", "e">>, <<"d", "e", "f", "a", "u", "l", "t">>,
    <<"d", "e", "f", "e", "r", "r", "a", "b", "l", "e">>, <<"d", "e", "l", "e", "t", "e">>, <<"d", "i", "s", "t", "i", "n", "c", "t">>, <<"d", "r", "o", "p">>, <<"e", "l", "s", "e">>, <<"e", "s", "c", "a", "p", "e">>, <<"e", "x", "c", "e", "p", "t">>,
    <<"e", "x", "i", "s", "t", "s">>, <<"f", "o", "r", "e", "i", "g", "n">>, <<"f", "r", "o", "m">>, <<"g", "r", "o", "u", "p">>, <<"h", "a", "v", "i", "n", "g">>, <<"i", "n">>, <<"i", "n", "d", "e", "x">>, <<"i", "n", "s", "e", "r", "t">>,
    <<"i", "n", "t", "e", "r", "s", "e", "c", "t">>, <<"i", "n", "t", "o">>, <<"i", "s">>, <<"i", "s", "n", "u", "l", "l">>, <<"j", "o", "i", "n">>, <<"l", "i", "m", "i", "t">>, <<"n", "o", "t">>, <<"n", "o", "t", "h", "i", "n", "g">>,
    <<"n", "o", "t", "n", "u", "l", "l">>, <<"n", "u", "l", "l">>, <<"o", "n">>, <<"o", "r">>, <<"o", "r", "d", "e", "r">>, <<"p", "r", "i", "m", "a", "r", "y">>, <<"r", "e", "f", "e", "r", "e", "n", "c", "e", "s">>,
    <<"r", "e", "t", "u", "r", "n", "i", "n", "g">>, <<"s", "e", "l", "e", "c", "t">>, <<"s", "e", "t">>, <<"t", "a", "b", "l", "e">>, <<"t", "h", "e", "n">>, <<"t", "o">>, <<"t", "r", "a", "n", "s", "a", "c", "t", "i", "o", "n">>,
    <<"u", "n", "i", "o", "n">>, <<"u", "n", "i", "q", "u", "e">>, <<"u", "p", "d", "a", "t", "e">>, <<"u", "s", "i", "n", "g">>, <<"v", "a", "l", "u", "e", "s">>, <<"w", "h", "e", "n">>, <<"w", "h", "e", "r", "e">> }

\* the tokens of a statement from position i on: runs of word characters,
\* and every other character that is not white space as a token of its own
RECURSIVE TokensFrom(_, _)
TokensFrom(s, i) ==
  IF i > Len(s) THEN <<>>
  ELSE IF s[i] \in WhiteSpace THEN TokensFrom(s, i + 1)
  ELSE IF ~IsWordChar(s[i]) THEN <<<<s[i]>>>> \o TokensFrom(s, i + 1)
  ELSE LET last == CHOOSE j \in i..Len(s) :
                     /\ j = Len(s) \/ ~IsWordChar(s[j + 1])
                     /\ \A k \in i..(j - 1) : IsWordChar(s[k + 1])
       IN <<SubSeq(s, i, last)>> \o TokensFrom(s, last + 1)

Tokens(stmt) == TokensFrom(ToLower(stmt), 1)

IsIdentifier(tok) ==
  /\ tok # <<>>
  /\ \A i \in 1..Len(tok) : IsWordChar(tok[i])
  /\ tok[1] \notin Digits
  /\ tok \notin ReservedWords

\* the token groups between the separators
RECURSIVE SplitTokens(_, _, _, _)
SplitTokens(toks, sep, i, cur) ==
  IF i > Len(toks) THEN <<cur>>
  ELSE IF toks[i] = sep THEN <<cur>> \o SplitTokens(toks, sep, i + 1, <<>>)
  ELSE SplitTokens(toks, sep, i + 1, Append(cur, toks[i]))

\* a column definition: a name, type words, then PRIMARY KEY AUTOINCREMENT
\* and NOT NULL, each optional
ParseColumnDef(d) ==
  LET n        == Len(d)
      notnull  == n >= 3 /\ SubSeq(d, n - 1, n) = <<<<"n", "o", "t">>, <<"n", "u", "l", "l">>>>
      m        == IF notnull THEN n - 2 ELSE n
      pk       == m >= 4 /\ SubSeq(d, m - 2, m) = <<<<"p", "r", "i", "m", "a", "r", "y">>, <<"k", "e", "y">>, <<"a", "u", "t", "o", "i", "n", "c", "r", "e", "m", "e", "n", "t">>>>
      k        == IF pk THEN m - 3 ELSE m
  IN [ok |-> n >= 1 /\ \A i \in 1..k : IsIdentifier(d[i]),
      name |-> IF n >= 1 THEN d[1] ELSE <<>>,
      notnull |-> notnull]

\* the column definitions between the parentheses of CREATE TABLE
ParseColumns(table, defs) ==
  [ok |-> \A i \in 1..Len(defs) : ParseColumnDef(defs[i]).ok,
   table |-> table,
   columns |-> [i \in 1..Len(defs) |->
                  [name |-> ParseColumnDef(defs[i]).name,
                   notnull |-> ParseColumnDef(defs[i]).notnull]]]

\* CREATE TABLE IF NOT EXISTS <table> ( <column definition>, ... )
ParseCreateTable(t) ==
  IF /\ Len(t) >= 9
     /\ SubSeq(t, 1, 5) = <<<<"c", "r", "e", "a", "t", "e">>, <<"t", "a", "b", "l", "e">>, <<"i", "f">>, <<"n", "o", "t">>, <<"e", "x", "i", "s", "t", "s">>>>
     /\ IsIdentifier(t[6]) /\ t[7] = <<"(">> /\ t[Len(t)] = <<")">>
  THEN ParseColumns(t[6], SplitTokens(SubSeq(t, 8, Len(t) - 1), <<",">>, 1, <<>>))
  ELSE [ok |-> FALSE, table |-> <<>>, columns |-> <<>>]

EmptyDb == [tables |-> <<>>, indexes |-> <<>>]

\* the function f with the value v at x
With(f, x, v) == [y \in DOMAIN f \cup {x} |-> IF y = x THEN v ELSE f[y]]

Without(f, S) == [y \in DOMAIN f \ S |-> f[y]]

\* a parsed CREATE TABLE IF NOT EXISTS statement on the database
CreateTableParsed(db, p) ==
  IF ~p.ok THEN [db |-> db, err |-> "syntax error"]
  ELSE IF p.table \in DOMAIN db.tables THEN [db |-> db, err |-> "nil"]
  ELSE IF p.table \in DOMAIN db.indexes
    THEN [db |-> db, err |-> "there is already an index named"]
  ELSE IF \E i, j \in 1..Len(p.columns) : i < j /\ p.columns[i].name = p.columns[j].name
    THEN [db |-> db, err |-> "duplicate column name"]
  ELSE [db |-> [db EXCEPT !.tables =
                  With(db.tables, p.table,
                       [columns |-> p.columns, checked |-> FALSE, rows |-> <<>>])],
        err |-> "nil"]

\* db.Exec of a CREATE TABLE IF NOT EXISTS statement, t its tokens
ExecCreateTable(db, t) == CreateTableParsed(db, ParseCreateTable(t))

\* db.Exec of CREATE INDEX IF NOT EXISTS <index> ON <table> (<column>)
ExecCreateIndex(db, t) ==
  IF ~(/\ Len(t) = 11
       /\ SubSeq(t, 1, 5) = <<<<"c", "r", "e", "a", "t", "e">>, <<"i", "n", "d", "e", "x">>, <<"i", "f">>, <<"n", "o", "t">>, <<"e", "x", "i", "s", "t", "s">>>>
       /\ IsIdentifier(t[6]) /\ t[7] = <<"o", "n">> /\ IsIdentifier(t[8])
       /\ t[9] = <<"(">> /\ IsIdentifier(t[10]) /\ t[11] = <<")">>)
    THEN [db |-> db, err |-> "syntax error"]
  ELSE IF t[8] \notin DOMAIN db.tables THEN [db |-> db, err |-> "no such table"]
  ELSE IF t[6] \in DOMAIN db.indexes THEN [db |-> db, err |-> "nil"]
  ELSE IF t[6] \in DOMAIN db.tables
    THEN [db |-> db, err |-> "there is already a table named"]
  ELSE IF \A i \in 1..Len(db.tables[t[8]].columns) :
            db.tables[t[8]].columns[i].name # t[10]
    THEN [db |-> db, err |-> "no such column"]
  ELSE [db |-> [db EXCEPT !.indexes =
                  With(db.indexes, t[6], [table |-> t[8], column |-> t[10]])],
        err |-> "nil"]

\* db.Exec of DROP TABLE IF EXISTS <table>: the table goes with its indexes
ExecDropTable(db, t) ==
  IF ~(/\ Len(t) = 5
       /\ SubSeq(t, 1, 4) = <<<<"d", "r", "o", "p">>, <<"t", "a", "b", "l", "e">>, <<"i", "f">>, <<"e", "x", "i", "s", "t", "s">>>>
       /\ IsIdentifier(t[5]))
    THEN [db |-> db, err |-> "syntax error"]
  ELSE [db |-> [tables |-> Without(db.tables, {t[5]}),
                indexes |-> Without(db.indexes,
                              {x \in DOMAIN db.indexes : db.indexes[x].table = t[5]})],
        err |-> "nil"]

\* db.Exec of DELETE FROM <table>: every row of the table goes
ExecDelete(db, t) ==
  IF ~(Len(t) = 3 /\ SubSeq(t, 1, 2) = <<<<"d", "e", "l", "e", "t", "e">>, <<"f", "r", "o", "m">>>> /\ IsIdentifier(t[3]))
    THEN [db |-> db, err |-> "syntax error"]
  ELSE IF t[3] \notin DOMAIN db.tables THEN [db |-> db, err |-> "no such table"]
  ELSE [db |-> [db EXCEPT !.tables[t[3]].rows = <<>>], err |-> "nil"]

\* the position of the first closing parenthesis from position i on, 0
\* when there is none
ClosingAt(t, i) ==
  IF \E j \in i..Len(t) : t[j] = <<")">>
    THEN CHOOSE j \in i..Len(t) : t[j] = <<")">> /\ \A k \in i..(j - 1) : t[k] # <<")">>
    ELSE 0

\* the column list and the value list of an INSERT statement
ParseInsertLists(table, cols, vals) ==
  [ok |-> /\ \A i \in 1..Len(cols) : Len(cols[i]) = 1 /\ IsIdentifier(cols[i][1])
          /\ Len(vals) = Len(cols)
          /\ \A i \in 1..Len(vals) : vals[i] = <<<<"?">>>>,
   table |-> table,
   columns |-> [i \in 1..Len(cols) |-> IF cols[i] = <<>> THEN <<>> ELSE cols[i][1]]]

\* the statement after INSERT INTO <table> (, the column list closing at close
ParseInsertAt(t, close) ==
  IF /\ close > 0
     /\ Len(t) >= close + 3
     /\ t[close + 1] = <<"v", "a", "l", "u", "e", "s">> /\ t[close + 2] = <<"(">> /\ t[Len(t)] = <<")">>
  THEN ParseInsertLists(t[3], SplitTokens(SubSeq(t, 5, close - 1), <<",">>, 1, <<>>),
                        SplitTokens(SubSeq(t, close + 3, Len(t) - 1), <<",">>, 1, <<>>))
  ELSE [ok |-> FALSE, table |-> <<>>, columns |-> <<>>]

\* INSERT INTO <table> ( <column>, ... ) VALUES ( ?, ... )
ParseInsert(t) ==
  IF /\ Len(t) >= 4
     /\ SubSeq(t, 1, 2) = <<<<"i", "n", "s", "e", "r", "t">>, <<"i", "n", "t", "o">>>>
     /\ IsIdentifier(t[3]) /\ t[4] = <<"(">>
  THEN ParseInsertAt(t, ClosingAt(t, 5))
  ELSE [ok |-> FALSE, table |-> <<>>, columns |-> <<>>]

\* the CHECK constraints of the legacy logs table on the values a row
\* gives: operation is upload or download, size is not negative
ChecksHold(columns, values) ==
  \A i \in 1..Len(columns) :
    /\ columns[i] = <<"o", "p", "e", "r", "a", "t", "i", "o", "n">> => values[i] \in {<<"u", "p", "l", "o", "a", "d">>, <<"d", "o", "w", "n", "l", "o", "a", "d">>}
    /\ columns[i] = <<"s", "i", "z", "e">> => values[i] >= 0

\* a parsed INSERT statement with its arguments on the database: the row
\* is added after the rows of the table
InsertParsed(db, p, args) ==
  IF ~p.ok THEN [db |-> db, err |-> "syntax error"]
  ELSE IF p.table \notin DOMAIN db.tables THEN [db |-> db, err |-> "no such table"]
  ELSE IF \E i \in 1..Len(p.columns) :
            \A j \in 1..Len(db.tables[p.table].columns) :
              db.tables[p.table].columns[j].name # p.columns[i]
    THEN [db |-> db, err |-> "no such column"]
  ELSE IF Len(args) # Len(p.columns)
    THEN [db |-> db, err |-> "wrong number of arguments"]
  ELSE IF \E j \in 1..Len(db.tables[p.table].columns) :
            /\ db.tables[p.table].columns[j].notnull
            /\ \A i \in 1..Len(p.columns) :
                 p.columns[i] # db.tables[p.table].columns[j].name
    THEN [db |-> db, err |-> "NOT NULL constraint failed"]
  ELSE IF db.tables[p.table].checked /\ ~ChecksHold(p.columns, args)
    THEN [db |-> db, err |-> "CHECK constraint failed"]
  ELSE [db |-> [db EXCEPT !.tables[p.table].rows =
                  Append(@, [columns |-> p.columns, values |-> args])],
        err |-> "nil"]

\* db.Exec of an INSERT statement with its arguments; failed is a failure
\* of the call itself (disk, lock), which changes nothing
ExecInsert(db, stmt, args, failed) ==
  IF failed THEN [db |-> db, err |-> "engine error"]
  ELSE InsertParsed(db, ParseInsert(Tokens(stmt)), args)

\* a statement without arguments is run by its kind
ExecTokens(db, t) ==
  IF Len(t) >= 2 /\ SubSeq(t, 1, 2) = <<<<"c", "r", "e", "a", "t", "e">>, <<"t", "a", "b", "l", "e">>>> THEN ExecCreateTable(db, t)
  ELSE IF Len(t) >= 2 /\ SubSeq(t, 1, 2) = <<<<"c", "r", "e", "a", "t", "e">>, <<"i", "n", "d", "e", "x">>>> THEN ExecCreateIndex(db, t)
  ELSE IF Len(t) >= 2 /\ SubSeq(t, 1, 2) = <<<<"d", "r", "o", "p">>, <<"t", "a", "b", "l", "e">>>> THEN ExecDropTable(db, t)
  ELSE IF Len(t) >= 2 /\ SubSeq(t, 1, 2) = <<<<"d", "e", "l", "e", "t", "e">>, <<"f", "r", "o", "m">>>> THEN ExecDelete(db, t)
  ELSE [db |-> db, err |-> "syntax error"]

\* db.Exec of a statement without arguments; failed is a failure of the
\* call itself (disk, lock), which changes nothing
Exec(db, stmt, failed) ==
  IF failed THEN [db |-> db, err |-> "engine error"]
  ELSE ExecTokens(db, Tokens(stmt))

\* a db.Exec call a handler made, with the error it got
Logged(sql, err) == [sql |-> sql, err |-> err]

\* the statements in order until one fails; failAt is the call the engine
\* fails by itself, 0 for none. Each statement comes with the error the
\* caller returns when it fails.
RECURSIVE ExecAll(_, _, _, _)
\* the handler after statement i returned r
ExecNext(r, stmts, i, failAt) ==
  IF r.err # "nil"
    THEN [db |-> r.db, err |-> stmts[i].wrap, log |-> <<Logged(stmts[i].sql, r.err)>>]
    ELSE [ExecAll(r.db, stmts, i + 1, failAt) EXCEPT
            !.log = <<Logged(stmts[i].sql, "nil")>> \o @]

ExecAll(db, stmts, i, failAt) ==
  IF i > Len(stmts) THEN [db |-> db, err |-> "nil", log |-> <<>>]
  ELSE ExecNext(Exec(db, stmts[i].sql, i = failAt), stmts, i, failAt)

(***************************************************************************)
(* database.go: CreateTableFromSchema                                      *)
(***************************************************************************)
\* a variant that never drops the existing table
CreateTableStatementsNoDrop(ts, replaceMode) ==
  LET indexStatements == GenerateIndexSQL(ts)
  IN <<[sql |-> GenerateCreateTableSQL(ts), wrap |-> "failed to create table"]>>
     \o [i \in 1..Len(indexStatements) |->
           [sql |-> indexStatements[i], wrap |-> "failed to create index"]]

CreateTableStatements(ts, replaceMode) ==
  LET indexStatements == GenerateIndexSQL(ts)
  IN (IF replaceMode
        THEN <<[sql |-> <<"D", "R", "O", "P", " ", "T", "A", "B", "L", "E", " ", "I", "F", " ", "E", "X", "I", "S", "T", "S", " ">> \o ts.Name, wrap |-> "failed to drop existing table"]>>
        ELSE <<>>)
     \o <<[sql |-> GenerateCreateTableSQL(ts), wrap |-> "failed to create table"]>>
     \o [i \in 1..Len(indexStatements) |->
           [sql |-> indexStatements[i], wrap |-> "failed to create index"]]

CreateTableFromSchema(db, ts, replaceMode, failAt) ==
  ExecAll(db, CreateTableStatements(ts, replaceMode), 1, failAt)

(***************************************************************************)
(* database.go: createTables, run on a new database file                   *)
(***************************************************************************)
LegacyIndex(column) == [table |-> <<"l", "o", "g", "s">>, column |-> column]

\* the logs table with its CHECK constraints and its six indexes; an index
\* on two columns has the text between its parentheses as its column
createTables ==
  [tables |-> With(<<>>, <<"l", "o", "g", "s">>,
      [columns |-> << [name |-> <<"i", "d">>, notnull |-> FALSE],
                      [name |-> <<"t", "i", "m", "e", "s", "t", "a", "m", "p">>, notnull |-> TRUE],
                      [name |-> <<"u", "s", "e", "r", "n", "a", "m", "e">>, notnull |-> TRUE],
                      [name |-> <<"o", "p", "e", "r", "a", "t", "i", "o", "n">>, notnull |-> TRUE],
                      [name |-> <<"s", "i", "z", "e">>, notnull |-> TRUE] >>,
       checked |-> TRUE,
       rows |-> <<>>]),
   indexes |-> [x \in { <<"i", "d", "x", "_", "l", "o", "g", "s", "_", "u", "s", "e", "r", "n", "a", "m", "e">>, <<"i", "d", "x", "_", "l", "o", "g", "s", "_", "o", "p", "e", "r", "a", "t", "i", "o", "n">>, <<"i", "d", "x", "_", "l", "o", "g", "s", "_", "t", "i", "m", "e", "s", "t", "a", "m", "p">>,
                        <<"i", "d", "x", "_", "l", "o", "g", "s", "_", "s", "i", "z", "e">>, <<"i", "d", "x", "_", "l", "o", "g", "s", "_", "u", "s", "e", "r", "n", "a", "m", "e", "_", "o", "p", "e", "r", "a", "t", "i", "o", "n">>,
                        <<"i", "d", "x", "_", "l", "o", "g", "s", "_", "o", "p", "e", "r", "a", "t", "i", "o", "n", "_", "s", "i", "z", "e">> } |->
                  CASE x = <<"i", "d", "x", "_", "l", "o", "g", "s", "_", "u", "s", "e", "r", "n", "a", "m", "e">> -> LegacyIndex(<<"u", "s", "e", "r", "n", "a", "m", "e">>)
                    [] x = <<"i", "d", "x", "_", "l", "o", "g", "s", "_", "o", "p", "e", "r", "a", "t", "i", "o", "n">> -> LegacyIndex(<<"o", "p", "e", "r", "a", "t", "i", "o", "n">>)
                    [] x = <<"i", "d", "x", "_", "l", "o", "g", "s", "_", "t", "i", "m", "e", "s", "t", "a", "m", "p">> -> LegacyIndex(<<"t", "i", "m", "e", "s", "t", "a", "m", "p">>)
                    [] x = <<"i", "d", "x", "_", "l", "o", "g", "s", "_", "s", "i", "z", "e">> -> LegacyIndex(<<"s", "i", "z", "e">>)
                    [] x = <<"i", "d", "x", "_", "l", "o", "g", "s", "_", "u", "s", "e", "r", "n", "a", "m", "e", "_", "o", "p", "e", "r", "a", "t", "i", "o", "n">> -> LegacyIndex(<<"u", "s", "e", "r", "n", "a", "m", "e", ",", " ", "o", "p", "e", "r", "a", "t", "i", "o", "n">>)
                    [] OTHER -> LegacyIndex(<<"o", "p", "e", "r", "a", "t", "i", "o", "n", ",", " ", "s", "i", "z", "e">>)]]

(***************************************************************************)
(* database.go: InsertLogEntries                                           *)
(***************************************************************************)
ClearSQL(tableName) == <<"D", "E", "L", "E", "T", "E", " ", "F", "R", "O", "M", " ">> \o tableName

InsertSQL(tableName) ==
  <<"\n", "\t", "I", "N", "S", "E", "R", "T", " ", "I", "N", "T", "O", " ">> \o tableName
    \o <<" ", "(", "t", "i", "m", "e", "s", "t", "a", "m", "p", ",", " ", "u", "s", "e", "r", "n", "a", "m", "e", ",", " ", "o", "p", "e", "r", "a", "t", "i", "o", "n", ",", " ", "s", "i", "z", "e", ")", "\n", "\t", "V", "A", "L", "U", "E", "S", " ", "(", "?", ",", " ", "?", ",", " ", "?", ",", " ", "?", ")", "\n", "\t">>

\* the insert loop from entry i on; made is the number of db.Exec calls
\* the handler made before
RECURSIVE InsertEach(_, _, _, _, _, _)
\* the loop after the insert of entry i returned r
InsertNext(r, insertSQL, entries, i, made, failAt) ==
  IF r.err # "nil"
    THEN [db |-> r.db, count |-> i - 1, err |-> "failed to insert entry",
          log |-> <<Logged(insertSQL, r.err)>>]
    ELSE [InsertEach(r.db, insertSQL, entries, i + 1, made + 1, failAt) EXCEPT
            !.log = <<Logged(insertSQL, "nil")>> \o @]

InsertEach(db, insertSQL, entries, i, made, failAt) ==
  IF i > Len(entries) THEN [db |-> db, count |-> i - 1, err |-> "nil", log |-> <<>>]
  ELSE InsertNext(ExecInsert(db, insertSQL,
                    <<entries[i].Timestamp, entries[i].Username,
                      entries[i].Operation, entries[i].Size>>,
                    made + 1 = failAt),
                  insertSQL, entries, i, made, failAt)

\* the handler after the DELETE returned r
InsertCleared(r, entries, tableName, failAt) ==
  IF r.err # "nil"
    THEN [db |-> r.db, count |-> 0, err |-> "failed to clear existing data",
          log |-> <<Logged(ClearSQL(tableName), r.err)>>]
    ELSE [InsertEach(r.db, InsertSQL(tableName), entries, 1, 1, failAt) EXCEPT
            !.log = <<Logged(ClearSQL(tableName), "nil")>> \o @]

\* a variant that clears the table in append mode too
InsertLogEntriesAlwaysClear(db, entries, appendMode, tableName, failAt) ==
  IF Len(entries) = 0 THEN [db |-> db, count |-> 0, err |-> "nil", log |-> <<>>]
  ELSE InsertCleared(Exec(db, ClearSQL(tableName), failAt = 1), entries, tableName, failAt)

InsertLogEntries(db, entries, appendMode, tableName, failAt) ==
  IF Len(entries) = 0 THEN [db |-> db, count |-> 0, err |-> "nil", log |-> <<>>]
  ELSE IF ~appendMode
    THEN InsertCleared(Exec(db, ClearSQL(tableName), failAt = 1), entries, tableName, failAt)
  ELSE InsertEach(db, InsertSQL(tableName), entries, 1, 0, failAt)

(***************************************************************************)
(* database.go: InsertRecords                                              *)
(***************************************************************************)
\* the nil argument: no Go string, a string being a sequence of characters
Null == <<"NULL">>

\* what the engine finds wrong when it compiles a parsed INSERT statement
CompileError(db, p) ==
  IF ~p.ok THEN "syntax error"
  ELSE IF p.table \notin DOMAIN db.tables THEN "no such table"
  ELSE IF \E i \in 1..Len(p.columns) :
            \A j \in 1..Len(db.tables[p.table].columns) :
              db.tables[p.table].columns[j].name # p.columns[i]
    THEN "no such column"
  ELSE "nil"

PrepareParsed(db, p) == [err |-> CompileError(db, p), p |-> p]

\* db.Prepare of an INSERT statement; failed is a failure of the call itself
Prepare(db, stmt, failed) ==
  IF failed THEN [err |-> "engine error", p |-> [ok |-> FALSE, table |-> <<>>, columns |-> <<>>]]
  ELSE PrepareParsed(db, ParseInsert(Tokens(stmt)))

\* a nil argument for a NOT NULL column
NullViolation(db, p, args) ==
  \E i \in 1..Len(args) :
    /\ args[i] = Null
    /\ \E j \in 1..Len(db.tables[p.table].columns) :
         /\ db.tables[p.table].columns[j].name = p.columns[i]
         /\ db.tables[p.table].columns[j].notnull

\* stmt.Exec of the prepared INSERT with the arguments of one record
StmtExec(db, p, args, failed) ==
  IF failed THEN [db |-> db, err |-> "engine error"]
  ELSE IF NullViolation(db, p, args) THEN [db |-> db, err |-> "NOT NULL constraint failed"]
  ELSE InsertParsed(db, p, args)

RecordsInsertSQL(tableName, headers) ==
  <<"I", "N", "S", "E", "R", "T", " ", "I", "N", "T", "O", " ">> \o tableName \o <<" ", "(">> \o Join(headers, <<",", " ">>) \o <<")", " ", "V", "A", "L", "U", "E", "S", " ", "(">>
    \o Join([i \in 1..Len(headers) |-> <<"?">>], <<",", " ">>) \o <<")">>

\* the arguments of a record: nil for an empty field
RecordArgs(record) == [j \in 1..Len(record) |-> IF record[j] = <<>> THEN Null ELSE record[j]]

\* what InsertRecords returns: record is the index its error names, 0 for none
RecordsResult(db, count, err, record, log) ==
  [db |-> db, count |-> count, err |-> err, record |-> record, log |-> log]

\* the insert loop from record i on; the prepare was db call 1, so the
\* insert of record i is call i + 1
RECURSIVE RecordsEach(_, _, _, _, _, _, _)
\* the loop after the insert of record i returned r
RecordsNext(r, p, insertSQL, headers, records, i, failAt) ==
  IF r.err # "nil"
    THEN RecordsResult(r.db, i - 1, "failed to insert record", i, <<Logged(insertSQL, r.err)>>)
    ELSE [RecordsEach(r.db, p, insertSQL, headers, records, i + 1, failAt) EXCEPT
            !.log = <<Logged(insertSQL, "nil")>> \o @]

RecordsEach(db, p, insertSQL, headers, records, i, failAt) ==
  IF i > Len(records) THEN RecordsResult(db, i - 1, "nil", 0, <<>>)
  ELSE IF Len(records[i]) # Len(headers)
    THEN RecordsResult(db, i - 1, "record has the wrong number of fields", i, <<>>)
  ELSE RecordsNext(StmtExec(db, p, RecordArgs(records[i]), i + 1 = failAt),
                   p, insertSQL, headers, records, i, failAt)

\* the handler after db.Prepare returned r
RecordsPrepared(r, db, insertSQL, headers, records, failAt) ==
  IF r.err # "nil"
    THEN RecordsResult(db, 0, "failed to prepare insert statement", 0,
                       <<Logged(insertSQL, r.err)>>)
    ELSE RecordsEach(db, r.p, insertSQL, headers, records, 1, failAt)

\* a variant that checks the field counts of all records before it inserts
InsertRecordsCheckFirst(db, tableName, headers, records, failAt) ==
  IF Len(records) = 0 THEN RecordsResult(db, 0, "nil", 0, <<>>)
  ELSE IF Len(headers) = 0 THEN RecordsResult(db, 0, "no headers provided", 0, <<>>)
  ELSE IF \E i \in 1..Len(records) : Len(records[i]) # Len(headers)
    THEN RecordsResult(db, 0, "record has the wrong number of fields",
           CHOOSE i \in 1..Len(records) :
             /\ Len(records[i]) # Len(headers)
             /\ \A k \in 1..(i - 1) : Len(records[k]) = Len(headers),
           <<>>)
  ELSE RecordsPrepared(Prepare(db, RecordsInsertSQL(tableName, headers), failAt = 1),
                       db, RecordsInsertSQL(tableName, headers), headers, records, failAt)

InsertRecords(db, tableName, headers, records, failAt) ==
  IF Len(records) = 0 THEN RecordsResult(db, 0, "nil", 0, <<>>)
  ELSE IF Len(headers) = 0 THEN RecordsResult(db, 0, "no headers provided", 0, <<>>)
  ELSE RecordsPrepared(Prepare(db, RecordsInsertSQL(tableName, headers), failAt = 1),
                       db, RecordsInsertSQL(tableName, headers), headers, records, failAt)

\* no database handler was called yet
NoCall == [op |-> "none"]

RowsOf(d, t) == IF t \in DOMAIN d.tables THEN d.tables[t].rows ELSE <<>>

(***************************************************************************)
(* Inputs of the database handlers                                         *)
(***************************************************************************)
MaxEntries == 2

MaxStoredRows == 3

\* log entries as ParseCSV makes them
LogEntries ==
  { [ID |-> 0, Timestamp |-> 1, Username |-> <<"a">>, Operation |-> <<"u", "p", "l", "o", "a", "d">>, Size |-> 1],
    [ID |-> 0, Timestamp |-> 2, Username |-> <<"b">>, Operation |-> <<"d", "o", "w", "n", "l", "o", "a", "d">>, Size |-> 2] }

EntryLists == UNION { [1..n -> LogEntries] : n \in 0..MaxEntries }

\* headers of files loaded with schema detection into the logs table
DbHeaders ==
  { <<<<"t", "i", "m", "e", "s", "t", "a", "m", "p">>, <<"u", "s", "e", "r", "n", "a", "m", "e">>, <<"o", "p", "e", "r", "a", "t", "i", "o", "n">>, <<"s", "i", "z", "e">>>>,
    <<<<"u", "s", "e", "r", "n", "a", "m", "e">>, <<"s", "i", "z", "e">>>> }

DbSchemas ==
  { r.schema : r \in { x \in UNION { DetectSchema(h, <<[i \in 1..Len(h) |-> <<"7">>]>>, <<"l", "o", "g", "s">>) :
                                       h \in DbHeaders } : x.err = "nil" } }

\* the db.Exec call of a handler that fails by itself: none, the first, the second
EngineFailures == 0..2

(***************************************************************************)
(* Inputs of InsertRecords                                                 *)
(***************************************************************************)
MaxInserted == 3

\* records as ParseCSVRaw returns them: of two fields, short, long, and
\* with an empty field
FieldRows ==
  { <<<<"a">>, <<"1">>>>, <<<<"a">>>>, <<<<"a">>, <<"1">>, <<"x">>>>, <<<<>>, <<"1">>>> }

FieldRowLists == UNION { [1..n -> FieldRows] : n \in 0..MaxInserted }

InsertHeaders ==
  { <<>>, <<<<"u", "s", "e", "r", "n", "a", "m", "e">>, <<"s", "i", "z", "e">>>>, <<<<"s", "i", "z", "e">>>>, <<<<"U", "s", "e", "r", " ", "N", "a", "m", "e">>, <<"s", "i", "z", "e">>>> }

\* the tables of the detected schemas, new and with a record stored
CreatedDbs == { CreateTableFromSchema(EmptyDb, ts, TRUE, 0).db : ts \in DbSchemas }

RecordDbs ==
  {EmptyDb} \cup CreatedDbs
    \cup { InsertRecords(d, <<"l", "o", "g", "s">>, <<<<"u", "s", "e", "r", "n", "a", "m", "e">>, <<"s", "i", "z", "e">>>>, <<<<<<"b">>, <<"2">>>>>>, 0).db :
             d \in CreatedDbs }

(***************************************************************************)
(* database.go: InsertLogEntries called by several goroutines on one       *)
(* handle. The handle is a sql.DB, which the calls share; the code holds   *)
(* no other shared state, and the engine runs the statements of db.Exec    *)
(* calls one after the other, so a step of a goroutine is the code up to   *)
(* and with its next db.Exec.                                              *)
(***************************************************************************)
MaxGoroutines == 2

Goroutines == 1..MaxGoroutines

\* the entries goroutine g of TestDatabaseConcurrency makes: n of them
GoEntries(g, n) ==
  [j \in 1..n |-> [ID |-> 0, Timestamp |-> g * (MaxEntries + 1) + j, Username |-> <<"u", "s", "e", "r">>,
                   Operation |-> <<"u", "p", "l", "o", "a", "d">>, Size |-> 100]]

\* a variant of the first lines that clears the table in append mode too
GoStartAlwaysClear(entries, appendMode) ==
  IF Len(entries) = 0 THEN "done" ELSE "clear"

\* where a call stands after its first lines: returned, before the DELETE,
\* or in the insert loop
GoStart(entries, appendMode) ==
  IF Len(entries) = 0 THEN "done"
  ELSE IF ~appendMode THEN "clear"
  ELSE "insert"

\* the logs table of setupLogsTable, new and with a row stored
GoDbs ==
  { createTables,
    InsertLogEntries(createTables, <<CHOOSE e \in LogEntries : e.Timestamp = 1>>,
                     TRUE, <<"l", "o", "g", "s">>, 0).db }

RECURSIVE SumOver(_, _)
\* f[1] + ... + f[n]
SumOver(f, n) == IF n = 0 THEN 0 ELSE f[n] + SumOver(f, n - 1)

(***************************************************************************)
(* database.go: ExecuteQuery of a table by a reader while                  *)
(* CreateTableFromSchema runs                                              *)
(***************************************************************************)
\* no read yet
NoView == [err |-> "none"]

\* what a SELECT of the table returns: db.Query fails when there is no
\* such table
ExecuteQueryTable(db, tableName) ==
  IF tableName \notin DOMAIN db.tables THEN [err |-> "query execution failed"]
  ELSE [err |-> "nil", columns |-> db.tables[tableName].columns,
        rows |-> db.tables[tableName].rows]

\* the databases a replace runs on: new, with a detected table, with the
\* legacy table
ReplaceDbs == RecordDbs \cup {createTables}

(***************************************************************************)
(* State                                                                   *)
(***************************************************************************)
VARIABLES
  vpc,         \* validator run: "call" before the call, "return" after it
  query,       \* the argument of ValidateReadOnlyQuery
  normalized,  \* its normalizedQuery
  verr,        \* the error it returned
  qpc,         \* query command: "start", "prompt" (interactive loop), "exited"
  tableName,   \* the --table flag
  sqlQuery,    \* the --sql flag, empty for the interactive mode
  input,       \* the user's string the last handler worked on
  calls,       \* the calls the last handler made, in order
  result,      \* what the command returned: "running" until it returns
  ipc,         \* inferValueType run: "call" before the call, "return" after it
  value,       \* the argument of inferValueType
  vtype,       \* the ColumnType it returned
  dpc,          \* detectColumnType run: "call" before the call, "return" after it
  sample,       \* its records
  columnIndex,  \* its columnIndex, counted from 1
  sampleSize,   \* its sampleSize
  detectedType, \* the ColumnType it returned
  spc,          \* sanitizeColumnName runs: "call", "once", "twice"
  rawName,      \* the argument of the first run
  once,         \* the result of the first run
  twice,        \* the result of the run on that result
  cpc,          \* schema run: "call", "detected", "created", "recreated"
  headers,      \* the headers DetectSchema got
  records,      \* the records it got
  schemaTable,  \* its tableName
  schema,       \* the TableSchema it returned
  serr,         \* the error it returned
  db,           \* the database: tables and indexes
  dbBefore,     \* the database when the last handler was called
  dbLog,        \* the db.Exec calls the last handler made, with their errors
  dberr,        \* the error the last handler returned
  dbCall,       \* the last database handler called, with its arguments
  dbCount,      \* the count InsertLogEntries or InsertRecords returned
  dbRecord,     \* the record index the error of InsertRecords names, 0 for none
  runBase,      \* the rows of the table before the present run of successful append calls
  runSum,       \* the sum of the counts those calls returned
  goPc,         \* goroutines in InsertLogEntries: "go", "clear", "insert", "done"
  goMode,       \* the appendMode of each
  goEntries,    \* the entries of each
  goCount,      \* the insertedCount of each
  goErr,        \* the error each returned
  ctsPc,        \* CreateTableFromSchema step by step: "idle", "exec", "done"
  ctsStmts,     \* the statements of the call
  ctsDone,      \* how many of them it has run
  seen          \* what the last concurrent read of the table returned
validateVars == <<vpc, query, normalized, verr>>

queryVars == <<qpc, tableName, sqlQuery, input, calls, result>>

inferVars == <<ipc, value, vtype>>

goVars == <<goPc, goMode, goEntries, goCount, goErr>>

replaceVars == <<ctsPc, ctsStmts, ctsDone, seen>>

concurrentVars == <<goVars, replaceVars>>

coreVars == <<validateVars, queryVars, inferVars, concurrentVars>>

detectVars == <<dpc, sample, columnIndex, sampleSize, detectedType>>

sanitizeVars == <<spc, rawName, once, twice>>

schemaVars == <<cpc, headers, records, schemaTable, schema, serr>>

dbVars == <<db, dbBefore, dbLog, dberr>>

callVars == <<dbCall, dbCount, dbRecord, runBase, runSum>>

loaderVars == <<detectVars, sanitizeVars, schemaVars, dbVars, callVars, concurrentVars>>
vars == <<validateVars, queryVars, inferVars, loaderVars>>

ValidateIdle ==
  /\ vpc = "idle"
  /\ query = <<>>
  /\ normalized = <<>>
  /\ verr = Nil

QueryIdle ==
  /\ qpc = "idle"
  /\ tableName = <<>>
  /\ sqlQuery = <<>>
  /\ input = <<>>
  /\ calls = <<>>
  /\ result = "running"

InferIdle ==
  /\ ipc = "idle"
  /\ value = <<>>
  /\ vtype = TypeText

GoIdle ==
  /\ goPc = <<>>
  /\ goMode = <<>>
  /\ goEntries = <<>>
  /\ goCount = <<>>
  /\ goErr = <<>>

ReplaceIdle ==
  /\ ctsPc = "idle"
  /\ ctsStmts = <<>>
  /\ ctsDone = 0
  /\ seen = NoView

ConcurrentIdle == GoIdle /\ ReplaceIdle

CoreIdle == ValidateIdle /\ QueryIdle /\ InferIdle /\ ConcurrentIdle

DetectIdle ==
  /\ dpc = "idle"
  /\ sample = <<>>
  /\ columnIndex = 0
  /\ sampleSize = 0
  /\ detectedType = TypeText

SanitizeIdle ==
  /\ spc = "idle"
  /\ rawName = <<>>
  /\ once = <<>>
  /\ twice = <<>>

SchemaIdle ==
  /\ cpc = "idle"
  /\ headers = <<>>
  /\ records = <<>>
  /\ schemaTable = <<>>
  /\ schema = NoSchema
  /\ serr = "nil"

DbIdle ==
  /\ db = EmptyDb
  /\ dbBefore = EmptyDb
  /\ dbLog = <<>>
  /\ dberr = "nil"

CallIdle ==
  /\ dbCall = NoCall
  /\ dbCount = 0
  /\ dbRecord = 0
  /\ runBase = 0
  /\ runSum = 0

LoaderIdle == DetectIdle /\ SanitizeIdle /\ SchemaIdle /\ DbIdle /\ CallIdle /\ ConcurrentIdle
\* one call of ValidateReadOnlyQuery on a query of the input set
InitValidate ==
  /\ vpc = "call"
  /\ query \in Queries
  /\ normalized = <<>>
  /\ verr = Nil
  /\ QueryIdle
  /\ InferIdle
  /\ LoaderIdle

Validate ==
  /\ vpc = "call"
  /\ vpc' = "return"
  /\ normalized' = Normalize(query)
  /\ verr' = ValidateReadOnlyQuery(query)
  /\ UNCHANGED query
  /\ UNCHANGED <<queryVars, inferVars, loaderVars>>

NextValidate == Validate

SpecValidate == InitValidate /\ [][NextValidate]_vars

\* runQueryCommand with the database open and the flags parsed
InitQuery ==
  /\ qpc = "start"
  /\ tableName \in TableNames
  /\ sqlQuery \in Lines
  /\ input = <<>>
  /\ calls = <<>>
  /\ result = "running"
  /\ ValidateIdle
  /\ InferIdle
  /\ LoaderIdle

\* executeSingleQuery: runQueryCommand with a non-empty --sql
ExecuteSingleQuery ==
  /\ qpc = "start"
  /\ sqlQuery # <<>>
  /\ \E dbRet \in DbResults :
       /\ calls' = QueryCalls(sqlQuery, tableName, dbRet)
       /\ result' = IF calls'[Len(calls')].ret = Nil THEN "nil"
                    ELSE IF Len(calls') = 1 THEN "query validation failed"
                    ELSE "query execution failed"
  /\ input' = sqlQuery
  /\ qpc' = "exited"
  /\ UNCHANGED <<tableName, sqlQuery>>
  /\ UNCHANGED <<validateVars, inferVars, loaderVars>>

\* enterInteractiveMode up to its first prompt
EnterInteractiveMode ==
  /\ qpc = "start"
  /\ sqlQuery = <<>>
  /\ qpc' = "prompt"
  /\ UNCHANGED <<tableName, sqlQuery, input, calls, result>>
  /\ UNCHANGED <<validateVars, inferVars, loaderVars>>

\* scanner.Scan returns false: end of input, or a read error
ReadEnd ==
  /\ qpc = "prompt"
  /\ qpc' = "exited"
  /\ input' = <<>>
  /\ calls' = <<>>
  /\ result' \in {"nil", "error reading input"}
  /\ UNCHANGED <<tableName, sqlQuery>>
  /\ UNCHANGED <<validateVars, inferVars, loaderVars>>

\* one turn of the loop of enterInteractiveMode on a line of input
ReadLine ==
  /\ qpc = "prompt"
  /\ \E line \in Lines, dbRet \in DbResults :
       LET in == TrimSpace(line)
       IN /\ input' = in
          /\ IF in = <<"e", "x", "i", "t">> \/ in = <<"q", "u", "i", "t">>
             THEN /\ qpc' = "exited"
                  /\ calls' = <<>>
                  /\ result' = "nil"
             ELSE /\ qpc' = "prompt"
                  /\ result' = "running"
                  /\ calls' = IF in = <<>> THEN <<>>
                              ELSE IF in = <<".", "t", "a", "b", "l", "e", "s">>
                              THEN << Call("ExecuteQuery", TablesQuery, dbRet) >>
                              ELSE QueryCalls(in, tableName, dbRet)
  /\ UNCHANGED <<tableName, sqlQuery>>
  /\ UNCHANGED <<validateVars, inferVars, loaderVars>>

NextQuery ==
  \/ ExecuteSingleQuery
  \/ EnterInteractiveMode
  \/ ReadEnd
  \/ ReadLine

SpecQuery == InitQuery /\ [][NextQuery]_vars

\* one call of inferValueType on a value of the input set
InitInfer ==
  /\ ipc = "call"
  /\ value \in Values
  /\ vtype = TypeText
  /\ ValidateIdle
  /\ QueryIdle
  /\ LoaderIdle

InferValueType ==
  /\ ipc = "call"
  /\ ipc' = "return"
  /\ vtype' = inferValueType(value)
  /\ UNCHANGED value
  /\ UNCHANGED <<validateVars, queryVars, loaderVars>>

NextInfer == InferValueType

SpecInfer == InitInfer /\ [][NextInfer]_vars

\* one call of detectColumnType, as DetectSchema makes it for the second
\* column: the sample size is min(len(records), SchemaDetectionSampleSize);
\* one row fewer shows the effect of the cap
InitDetect ==
  /\ dpc = "call"
  /\ sample \in Samples
  /\ columnIndex = 2
  /\ sampleSize \in {Min(Len(sample), SchemaDetectionSampleSize)}
                      \cup {n \in {Len(sample) - 1} : n >= 0}
  /\ detectedType = TypeText
  /\ CoreIdle
  /\ SanitizeIdle
  /\ SchemaIdle
  /\ DbIdle
  /\ CallIdle

DetectColumnType ==
  /\ dpc = "call"
  /\ dpc' = "return"
  /\ detectedType' \in detectColumnType(sample, columnIndex, sampleSize)
  /\ UNCHANGED <<sample, columnIndex, sampleSize>>
  /\ UNCHANGED <<coreVars, sanitizeVars, schemaVars, dbVars, callVars>>

NextDetect == DetectColumnType

SpecDetect == InitDetect /\ [][NextDetect]_vars

\* sanitizeColumnName applied to a name, and then to its own result
InitSanitize ==
  /\ spc = "call"
  /\ rawName \in Names
  /\ once = <<>>
  /\ twice = <<>>
  /\ CoreIdle
  /\ DetectIdle
  /\ SchemaIdle
  /\ DbIdle
  /\ CallIdle

SanitizeOnce ==
  /\ spc = "call"
  /\ spc' = "once"
  /\ once' = sanitizeColumnName(rawName)
  /\ UNCHANGED <<rawName, twice>>
  /\ UNCHANGED <<coreVars, detectVars, schemaVars, dbVars, callVars>>

SanitizeTwice ==
  /\ spc = "once"
  /\ spc' = "twice"
  /\ twice' = sanitizeColumnName(once)
  /\ UNCHANGED <<rawName, once>>
  /\ UNCHANGED <<coreVars, detectVars, schemaVars, dbVars, callVars>>

NextSanitize == SanitizeOnce \/ SanitizeTwice

SpecSanitize == InitSanitize /\ [][NextSanitize]_vars

\* DetectSchema on the headers and records of a file
InitSchema ==
  /\ cpc = "call"
  /\ headers \in HeaderRows
  /\ records \in RecordSets
  /\ schemaTable \in SchemaTables
  /\ schema = NoSchema
  /\ serr = "nil"
  /\ CoreIdle
  /\ DetectIdle
  /\ SanitizeIdle
  /\ DbIdle
  /\ CallIdle

DetectSchemaCall ==
  /\ cpc = "call"
  /\ cpc' = "detected"
  /\ \E r \in DetectSchema(headers, records, schemaTable) :
       /\ schema' = r.schema
       /\ serr' = r.err
  /\ UNCHANGED <<headers, records, schemaTable>>
  /\ UNCHANGED <<coreVars, detectVars, sanitizeVars, dbVars, callVars>>

\* runLoadCommand after a detected schema: CreateTableFromSchema on the new
\* database, in replace mode unless --append was given
CreateTable ==
  /\ cpc = "detected"
  /\ serr = "nil"
  /\ cpc' = "created"
  /\ \E appendMode \in BOOLEAN :
     \E r \in {CreateTableFromSchema(db, schema, ~appendMode, 0)} :
          /\ db' = r.db
          /\ dbLog' = r.log
          /\ dberr' = r.err
  /\ dbBefore' = db
  /\ UNCHANGED <<headers, records, schemaTable, schema, serr>>
  /\ UNCHANGED <<coreVars, detectVars, sanitizeVars, callVars>>

\* a second load of the same file with --append: the statements are issued
\* a second time
CreateTableAgain ==
  /\ cpc = "created"
  /\ cpc' = "recreated"
  /\ \E r \in {CreateTableFromSchema(db, schema, FALSE, 0)} :
        /\ db' = r.db
        /\ dbLog' = r.log
        /\ dberr' = r.err
  /\ dbBefore' = db
  /\ UNCHANGED <<headers, records, schemaTable, schema, serr>>
  /\ UNCHANGED <<coreVars, detectVars, sanitizeVars, callVars>>

\* runLoadCommand after the table was created: InsertRecords with the headers
\* and the records of the file
LoadRecords ==
  /\ cpc = "created"
  /\ dberr = "nil"
  /\ cpc' = "inserted"
  /\ \E r \in {InsertRecords(db, schemaTable, headers, records, 0)} :
        /\ db' = r.db
        /\ dbLog' = r.log
        /\ dberr' = r.err
        /\ dbCount' = r.count
        /\ dbRecord' = r.record
  /\ dbCall' = [op |-> "InsertRecords", headers |-> headers, records |-> records,
                tableName |-> schemaTable]
  /\ dbBefore' = db
  /\ UNCHANGED <<headers, records, schemaTable, schema, serr, runBase, runSum>>
  /\ UNCHANGED <<coreVars, detectVars, sanitizeVars>>

NextSchema == DetectSchemaCall \/ CreateTable \/ CreateTableAgain \/ LoadRecords

SpecSchema == InitSchema /\ [][NextSchema]_vars

(***************************************************************************)
(* The database handlers on one database file: a file is opened new by     *)
(* Initialize or with the logs table by InitializeWithLegacySchema, then   *)
(* each run of the load command calls CreateTableFromSchema or             *)
(* InsertLogEntries on it and closes it; the file stays for the next run.  *)
(***************************************************************************)
InitDb ==
  /\ db \in {EmptyDb, createTables}
  /\ dbBefore = EmptyDb
  /\ dbLog = <<>>
  /\ dberr = "nil"
  /\ CallIdle
  /\ CoreIdle
  /\ DetectIdle
  /\ SanitizeIdle
  /\ SchemaIdle

\* InsertLogEntries on the logs table; the table is kept within MaxStoredRows
InsertLogEntriesCall ==
  /\ dbCall = NoCall
  /\ \E entries \in EntryLists, appendMode \in BOOLEAN, failAt \in EngineFailures :
       /\ (IF appendMode THEN Len(RowsOf(db, <<"l", "o", "g", "s">>)) ELSE 0) + Len(entries) <= MaxStoredRows
       /\ \E r \in {InsertLogEntries(db, entries, appendMode, <<"l", "o", "g", "s">>, failAt)} :
            /\ db' = r.db
            /\ dbLog' = r.log
            /\ dberr' = r.err
            /\ dbCount' = r.count
            /\ IF appendMode /\ r.err = "nil"
                 THEN /\ runBase' = runBase
                      /\ runSum' = runSum + r.count
                 ELSE /\ runBase' = Len(RowsOf(r.db, <<"l", "o", "g", "s">>))
                      /\ runSum' = 0
       /\ dbCall' = [op |-> "InsertLogEntries", entries |-> entries,
                     appendMode |-> appendMode, tableName |-> <<"l", "o", "g", "s">>]
  /\ dbBefore' = db
  /\ dbRecord' = 0
  /\ UNCHANGED <<coreVars, detectVars, sanitizeVars, schemaVars>>

\* CreateTableFromSchema with a detected schema of the logs table
CreateTableFromSchemaCall ==
  /\ dbCall = NoCall
  /\ \E ts \in DbSchemas, replaceMode \in BOOLEAN, failAt \in EngineFailures :
       /\ \E r \in {CreateTableFromSchema(db, ts, replaceMode, failAt)} :
            /\ db' = r.db
            /\ dbLog' = r.log
            /\ dberr' = r.err
            /\ runBase' = Len(RowsOf(r.db, <<"l", "o", "g", "s">>))
       /\ dbCall' = [op |-> "CreateTableFromSchema", schema |-> ts, replaceMode |-> replaceMode]
  /\ dbCount' = 0
  /\ runSum' = 0
  /\ dbBefore' = db
  /\ dbRecord' = 0
  /\ UNCHANGED <<coreVars, detectVars, sanitizeVars, schemaVars>>

\* the deferred db.Close() of the run: the file and its tables stay
Close ==
  /\ dbCall # NoCall
  /\ dbCall' = NoCall
  /\ dbBefore' = EmptyDb
  /\ dbLog' = <<>>
  /\ dberr' = "nil"
  /\ dbCount' = 0
  /\ dbRecord' = 0
  /\ UNCHANGED <<db, runBase, runSum>>
  /\ UNCHANGED <<coreVars, detectVars, sanitizeVars, schemaVars>>

NextDb == InsertLogEntriesCall \/ CreateTableFromSchemaCall \/ Close

SpecDb == InitDb /\ [][NextDb]_vars

(***************************************************************************)
(* InsertRecords on a database file: new, or with the logs table of a      *)
(* detected schema.                                                        *)
(***************************************************************************)
InitRecords ==
  /\ db \in RecordDbs
  /\ dbBefore = EmptyDb
  /\ dbLog = <<>>
  /\ dberr = "nil"
  /\ CallIdle
  /\ CoreIdle
  /\ DetectIdle
  /\ SanitizeIdle
  /\ SchemaIdle

InsertRecordsCall ==
  /\ dbCall = NoCall
  /\ \E hs \in InsertHeaders, rs \in FieldRowLists, failAt \in EngineFailures :
       /\ \E r \in {InsertRecords(db, <<"l", "o", "g", "s">>, hs, rs, failAt)} :
            /\ db' = r.db
            /\ dbLog' = r.log
            /\ dberr' = r.err
            /\ dbCount' = r.count
            /\ dbRecord' = r.record
            /\ runBase' = Len(RowsOf(r.db, <<"l", "o", "g", "s">>))
       /\ dbCall' = [op |-> "InsertRecords", headers |-> hs, records |-> rs,
                     tableName |-> <<"l", "o", "g", "s">>]
  /\ runSum' = 0
  /\ dbBefore' = db
  /\ UNCHANGED <<coreVars, detectVars, sanitizeVars, schemaVars>>

NextRecords == InsertRecordsCall

SpecRecords == InitRecords /\ [][NextRecords]_vars

(***************************************************************************)
(* TestDatabaseConcurrency: goroutines call InsertLogEntries on one handle *)
(* and one table; the scheduler picks which goroutine steps next.          *)
(***************************************************************************)
\* what the goroutines leave alone
goRest ==
  <<validateVars, queryVars, inferVars, detectVars, sanitizeVars, schemaVars,
    dbBefore, dbLog, dberr, callVars, replaceVars>>

InitGo ==
  /\ db \in GoDbs
  /\ dbBefore = db
  /\ dbLog = <<>>
  /\ dberr = "nil"
  /\ CallIdle
  /\ ValidateIdle /\ QueryIdle /\ InferIdle
  /\ DetectIdle
  /\ SanitizeIdle
  /\ SchemaIdle
  /\ ReplaceIdle
  /\ goPc = [g \in Goroutines |-> "go"]
  /\ goMode \in [Goroutines -> BOOLEAN]
  /\ \E n \in [Goroutines -> 0..MaxEntries] :
       /\ Len(RowsOf(db, <<"l", "o", "g", "s">>)) + SumOver(n, MaxGoroutines) <= MaxStoredRows
       /\ goEntries = [g \in Goroutines |-> GoEntries(g, n[g])]
  /\ goCount = [g \in Goroutines |-> 0]
  /\ goErr = [g \in Goroutines |-> "nil"]

\* the call of goroutine g up to its first db.Exec
GoCall(g) ==
  /\ goPc[g] = "go"
  /\ goPc' = [goPc EXCEPT ![g] = GoStart(goEntries[g], goMode[g])]
  /\ UNCHANGED <<goMode, goEntries, goCount, goErr, db>>
  /\ UNCHANGED goRest

\* its DELETE
GoClear(g) ==
  /\ goPc[g] = "clear"
  /\ \E r \in {Exec(db, ClearSQL(<<"l", "o", "g", "s">>), FALSE)} :
       /\ db' = r.db
       /\ goErr' = [goErr EXCEPT ![g] = IF r.err # "nil" THEN "failed to clear existing data" ELSE "nil"]
       /\ goPc' = [goPc EXCEPT ![g] = IF r.err # "nil" THEN "done" ELSE "insert"]
  /\ UNCHANGED <<goMode, goEntries, goCount>>
  /\ UNCHANGED goRest

\* one turn of its insert loop
GoInsert(g) ==
  /\ goPc[g] = "insert"
  /\ \E entry \in {goEntries[g][goCount[g] + 1]} :
       \E r \in {ExecInsert(db, InsertSQL(<<"l", "o", "g", "s">>),
                            <<entry.Timestamp, entry.Username, entry.Operation, entry.Size>>,
                            FALSE)} :
         /\ db' = r.db
         /\ goErr' = [goErr EXCEPT ![g] = IF r.err # "nil" THEN "failed to insert entry" ELSE "nil"]
         /\ goCount' = [goCount EXCEPT ![g] = IF r.err # "nil" THEN @ ELSE @ + 1]
         /\ goPc' = [goPc EXCEPT ![g] =
                       IF r.err # "nil" \/ goCount[g] + 1 = Len(goEntries[g])
                         THEN "done" ELSE "insert"]
  /\ UNCHANGED <<goMode, goEntries>>
  /\ UNCHANGED goRest

NextGo == \E g \in Goroutines : GoCall(g) \/ GoClear(g) \/ GoInsert(g)

SpecGo == InitGo /\ [][NextGo]_vars

(***************************************************************************)
(* CreateTableFromSchema statement by statement, each db.Exec a step, and  *)
(* a reader of the table that may read between any two of them.            *)
(***************************************************************************)
\* what the call and the reader leave alone
replaceRest ==
  <<validateVars, queryVars, inferVars, detectVars, sanitizeVars, schemaVars,
    dbLog, dbCount, dbRecord, runBase, runSum, goVars>>

InitReplace ==
  /\ db \in ReplaceDbs
  /\ dbBefore = EmptyDb
  /\ dbLog = <<>>
  /\ dberr = "nil"
  /\ CallIdle
  /\ ValidateIdle /\ QueryIdle /\ InferIdle
  /\ DetectIdle
  /\ SanitizeIdle
  /\ SchemaIdle
  /\ GoIdle
  /\ ReplaceIdle

\* the call is made: its statements are generated
ReplaceCall ==
  /\ ctsPc = "idle"
  /\ \E ts \in DbSchemas, replaceMode \in BOOLEAN :
       /\ dbCall' = [op |-> "CreateTableFromSchema", schema |-> ts, replaceMode |-> replaceMode]
       /\ ctsStmts' = CreateTableStatements(ts, replaceMode)
  /\ ctsPc' = "exec"
  /\ ctsDone' = 0
  /\ dbBefore' = db
  /\ UNCHANGED <<db, dberr, seen>>
  /\ UNCHANGED replaceRest

\* its next db.Exec
ReplaceExec ==
  /\ ctsPc = "exec"
  /\ \E r \in {Exec(db, ctsStmts[ctsDone + 1].sql, FALSE)} :
       /\ db' = r.db
       /\ dberr' = IF r.err # "nil" THEN ctsStmts[ctsDone + 1].wrap ELSE "nil"
       /\ ctsPc' = IF r.err # "nil" \/ ctsDone + 1 = Len(ctsStmts) THEN "done" ELSE "exec"
  /\ ctsDone' = ctsDone + 1
  /\ UNCHANGED <<dbCall, ctsStmts, dbBefore, seen>>
  /\ UNCHANGED replaceRest

\* a reader runs ExecuteQuery on the table while the call runs
Read ==
  /\ ctsPc = "exec"
  /\ seen' = ExecuteQueryTable(db, dbCall.schema.Name)
  /\ UNCHANGED <<db, dberr, dbCall, ctsPc, ctsStmts, ctsDone, dbBefore>>
  /\ UNCHANGED replaceRest

NextReplace == ReplaceCall \/ ReplaceExec \/ Read

SpecReplace == InitReplace /\ [][NextReplace]_vars

(***************************************************************************)
(* Properties of ValidateReadOnlyQuery, checked under SpecValidate         *)
(***************************************************************************)
Returned == vpc = "return"

\* the maximal runs of word characters of s, its whole words; cur is the run
\* read so far
RECURSIVE WordsFrom(_, _)
WordsFrom(s, cur) ==
  LET done == IF cur = <<>> THEN {} ELSE {cur}
  IN IF s = <<>> THEN done
     ELSE IF IsWordChar(Head(s))
          THEN WordsFrom(Tail(s), Append(cur, Head(s)))
          ELSE done \cup WordsFrom(Tail(s), <<>>)

Words(s) == WordsFrom(s, <<>>)

\* the forbidden keywords that are whole words of s
ForbiddenWords(s) == KeywordSet \cap Words(s)

\* the text passed the empty check and the statement-head check
PassesHead(n) == n # <<>> /\ HeadCheck(n) = Nil

KeywordErrors == {"ForbiddenKeyword", "ForbiddenKeywordInSubquery"}

\* The text as the SQL engine reads it: every character of a comment is
\* replaced by a space.  A line comment runs from "--" to the end of the line,
\* a block comment from "/*" to the next "*/" or the end of the text; neither
\* starts inside the other or inside a quoted string.
RECURSIVE EngineView(_, _)
EngineView(s, mode) ==
  IF s = <<>> THEN <<>>
  ELSE CASE mode = "code" ->
              IF HasPrefix(s, <<"-", "-">>)
              THEN <<" ", " ">> \o EngineView(Tail(Tail(s)), "line")
              ELSE IF HasPrefix(s, <<"/", "*">>)
              THEN <<" ", " ">> \o EngineView(Tail(Tail(s)), "block")
              ELSE IF Head(s) = "'"
              THEN <<"'">> \o EngineView(Tail(s), "string")
              ELSE <<Head(s)>> \o EngineView(Tail(s), "code")
         [] mode = "line" ->
              IF Head(s) = "\n"
              THEN <<"\n">> \o EngineView(Tail(s), "code")
              ELSE <<" ">> \o EngineView(Tail(s), "line")
         [] mode = "block" ->
              IF HasPrefix(s, <<"*", "/">>)
              THEN <<" ", " ">> \o EngineView(Tail(Tail(s)), "code")
              ELSE <<" ">> \o EngineView(Tail(s), "block")
         [] mode = "string" ->
              IF Head(s) = "'"
              THEN <<"'">> \o EngineView(Tail(s), "code")
              ELSE <<Head(s)>> \o EngineView(Tail(s), "string")

\* the forbidden keywords the engine reads outside comments
EngineKeywords(q) == ForbiddenWords(ToLower(EngineView(q, "code")))

\* C2: write operations are blocked: a query that ValidateReadOnlyQuery
\* accepts holds no forbidden keyword as a whole word outside a SQL comment,
\* comments being delimited as the SQL engine delimits them.
C2_WritesBlocked ==
  (Returned /\ verr = Nil) => EngineKeywords(query) = {}

\* C3: when the normalized text passes the statement-head check, validation
\* fails with the forbidden-keyword error, naming in upper case a keyword of
\* the text, whenever one of the 18 keywords is a whole word of the text
\* (anywhere: after a semicolon, inside parentheses), and a keyword that is
\* only part of a longer word causes no keyword error.
C3_KeywordAnywhere ==
  (Returned /\ PassesHead(normalized)) =>
     /\ ForbiddenWords(normalized) # {} =>
          /\ verr.kind = "ForbiddenKeyword"
          /\ \E k \in ForbiddenWords(normalized) : verr.keyword = ToUpper(k)
     /\ ForbiddenWords(normalized) = {} => verr.kind \notin KeywordErrors

\* C3 witness: a keyword after a semicolon of a SELECT was reported
C3_Witness ==
  /\ Returned
  /\ PassesHead(normalized)
  /\ Contains(normalized, <<";", " ", "d", "r", "o", "p">>)
  /\ verr = Err("ForbiddenKeyword", <<"D", "R", "O", "P">>)

\* the query is a + k + b for a keyword k and non-word characters a and b
IsBoundaryQuery(q, h, k) ==
  /\ Len(q) = Len(h) + Len(k) + 2
  /\ SubSeq(q, 1, Len(h)) = h
  /\ q[Len(h) + 1] \in NonWordChars
  /\ SubSeq(q, Len(h) + 2, Len(h) + 1 + Len(k)) = k
  /\ q[Len(q)] \in NonWordChars

\* C4 as stated: for every forbidden keyword k and non-word characters a and
\* b, ValidateReadOnlyQuery(a + k + b) fails with ForbiddenKeyword(k).
C4_Original ==
  Returned =>
    \A k \in KeywordSet :
      IsBoundaryQuery(query, <<>>, k) =>
         verr = Err("ForbiddenKeyword", ToUpper(k))

\* C4 amended: ValidateReadOnlyQuery(a + k + b) fails with NotReadOnly, the
\* statement-head check coming first; after an allowed statement head h
\* (select, with, explain), h + a + k + b fails with ForbiddenKeyword(k).
C4_BoundaryAfterHead ==
  Returned =>
    \A k \in KeywordSet :
      /\ IsBoundaryQuery(query, <<>>, k) => verr = Err("NotReadOnly", <<>>)
      /\ \A h \in Range(allowedPrefixes) :
           IsBoundaryQuery(query, h, k) =>
              verr = Err("ForbiddenKeyword", ToUpper(k))

\* C4 witness: "select" + "(" + "vacuum" + ")" was rejected for VACUUM
C4_Witness ==
  /\ Returned
  /\ query = <<"s", "e", "l", "e", "c", "t", "(", "v", "a", "c", "u", "u", "m", ")">>
  /\ verr = Err("ForbiddenKeyword", <<"V", "A", "C", "U", "U", "M">>)

\* the shapes the claim accepts: one statement, or one statement and one
\* terminal semicolon
SingleStatementShape(n) ==
  \/ SplitCount(n, ";") = 1
  \/ SplitCount(n, ";") = 2 /\ n[Len(n)] = ";"

\* C5: a query with an allowed head and no forbidden keyword fails with the
\* multiple-statements error when it holds more than one semicolon-delimited
\* statement; only a single statement, with or without one terminal
\* semicolon, is accepted.
C5_OneStatementOnly ==
  (Returned /\ PassesHead(normalized) /\ ForbiddenWords(normalized) = {}) =>
     /\ ~SingleStatementShape(normalized) => verr.kind = "MultipleStatements"
     /\ verr = Nil => SingleStatementShape(normalized)

\* the text starts with an allowed statement keyword or a whitelisted pragma
AllowedStart(n) ==
  \/ \E p \in {<<"s", "e", "l", "e", "c", "t">>, <<"w", "i", "t", "h">>, <<"e", "x", "p", "l", "a", "i", "n">>} : HasPrefix(n, p)
  \/ \E p \in Range(allowedPragmas) : HasPrefix(n, p)

\* C6: the checks run in one order and the first failure is reported: empty
\* query, statement head (PragmaNotAllowed / NotReadOnly), forbidden keyword,
\* multiple statements.
C6_CheckOrder ==
  Returned =>
     /\ normalized = <<>> <=> verr.kind = "EmptyQuery"
     /\ (normalized # <<>> /\ ~AllowedStart(normalized)) <=>
           verr.kind \in {"PragmaNotAllowed", "NotReadOnly"}
     /\ (normalized # <<>> /\ AllowedStart(normalized)
           /\ ForbiddenWords(normalized) # {}) <=> verr.kind = "ForbiddenKeyword"
     /\ (normalized # <<>> /\ AllowedStart(normalized)
           /\ ForbiddenWords(normalized) = {}
           /\ SplitCount(normalized, ";") > 2) <=> verr.kind = "MultipleStatements"
     /\ query = <<"D", "R", "O", "P", " ", "T", "A", "B", "L", "E", " ", "l", "o", "g", "s">> => verr.kind = "NotReadOnly"
     /\ query = <<"B", "E", "G", "I", "N", ";", " ", "S", "E", "L", "E", "C", "T", " ", "*", " ", "F", "R", "O", "M", " ", "l", "o", "g", "s", ";", " ", "C", "O", "M", "M", "I", "T", ";">> => verr.kind = "NotReadOnly"
     /\ query = <<"S", "E", "L", "E", "C", "T", " ", "*", " ", "F", "R", "O", "M", " ", "l", "o", "g", "s", ";", " ", "D", "R", "O", "P", " ", "T", "A", "B", "L", "E", " ", "l", "o", "g", "s", ";">> =>
           verr = Err("ForbiddenKeyword", <<"D", "R", "O", "P">>)

\* C6 witness: a query with a keyword and three segments got the keyword error
C6_Witness ==
  /\ Returned
  /\ query = <<"S", "E", "L", "E", "C", "T", " ", "*", " ", "F", "R", "O", "M", " ", "l", "o", "g", "s", ";", " ", "D", "R", "O", "P", " ", "T", "A", "B", "L", "E", " ", "l", "o", "g", "s", ";">>
  /\ SplitCount(normalized, ";") > 2
  /\ verr = Err("ForbiddenKeyword", <<"D", "R", "O", "P">>)

\* the eight whitelisted pragma forms
ReadOnlyPragmaForms ==
  { <<"p", "r", "a", "g", "m", "a", " ", "t", "a", "b", "l", "e", "_", "i", "n", "f", "o", "(">>, <<"p", "r", "a", "g", "m", "a", " ", "i", "n", "d", "e", "x", "_", "l", "i", "s", "t", "(">>, <<"p", "r", "a", "g", "m", "a", " ", "i", "n", "d", "e", "x", "_", "i", "n", "f", "o", "(">>,
    <<"p", "r", "a", "g", "m", "a", " ", "f", "o", "r", "e", "i", "g", "n", "_", "k", "e", "y", "_", "l", "i", "s", "t", "(">>, <<"p", "r", "a", "g", "m", "a", " ", "s", "c", "h", "e", "m", "a", "_", "v", "e", "r", "s", "i", "o", "n">>,
    <<"p", "r", "a", "g", "m", "a", " ", "u", "s", "e", "r", "_", "v", "e", "r", "s", "i", "o", "n">>, <<"p", "r", "a", "g", "m", "a", " ", "d", "a", "t", "a", "b", "a", "s", "e", "_", "l", "i", "s", "t">>,
    <<"p", "r", "a", "g", "m", "a", " ", "c", "o", "m", "p", "i", "l", "e", "_", "o", "p", "t", "i", "o", "n", "s">> }

HeadErrors == {"EmptyQuery", "PragmaNotAllowed", "NotReadOnly"}

\* C7: a text that starts with "pragma" passes the statement-head check iff
\* it starts with one of the eight whitelisted forms; any other pragma fails
\* with PragmaNotAllowed, never NotReadOnly, whatever keywords or semicolons
\* follow.
C7_PragmaWhitelist ==
  (Returned /\ HasPrefix(normalized, <<"p", "r", "a", "g", "m", "a">>)) =>
     /\ (\E f \in ReadOnlyPragmaForms : HasPrefix(normalized, f))
           <=> verr.kind \notin HeadErrors
     /\ (~\E f \in ReadOnlyPragmaForms : HasPrefix(normalized, f))
           <=> verr.kind = "PragmaNotAllowed"

\* C7 witness: a pragma outside the whitelist, followed by a forbidden keyword
\* and semicolons, failed with PragmaNotAllowed
C7_Witness ==
  /\ Returned
  /\ HasPrefix(normalized, <<"p", "r", "a", "g", "m", "a">>)
  /\ ForbiddenWords(normalized) # {}
  /\ SplitCount(normalized, ";") > 2
  /\ verr.kind = "PragmaNotAllowed"

\* the text has the form  pragma <name> = <value>
IsPragmaAssignment(n) ==
  \E e \in 1..Len(n) :
    /\ n[e] = "="
    /\ HasPrefix(n, <<"p", "r", "a", "g", "m", "a", " ">>)
    /\ LET name == TrimSpace(SubSeq(n, 8, e - 1))
           assigned == TrimSpace(SubSeq(n, e + 1, Len(n)))
       IN /\ name # <<>>
          /\ \A i \in 1..Len(name) : IsWordChar(name[i])
          /\ assigned # <<>>

\* C8: only read-only pragmas are permitted: every statement of the form
\* PRAGMA <name> = <value> is rejected.
C8_NoPragmaAssignment ==
  (Returned /\ IsPragmaAssignment(normalized)) => verr # Nil

\* `/\*.*?\*/` with '.' matching the newline too: a block comment over lines
BlockCommentEndAnyLine(s) ==
  IF ~HasPrefix(s, <<"/", "*">>) THEN 0
  ELSE LET ends == {j \in 4..Len(s) : s[j - 1] = "*" /\ s[j] = "/"}
       IN IF ends = {} THEN 0 ELSE CHOOSE j \in ends : \A m \in ends : j <= m

RECURSIVE StripBlocksAnyLine(_)
StripBlocksAnyLine(s) ==
  IF s = <<>> THEN <<>>
  ELSE IF BlockCommentEndAnyLine(s) > 0
       THEN StripBlocksAnyLine(SubSeq(s, BlockCommentEndAnyLine(s) + 1, Len(s)))
       ELSE <<Head(s)>> \o StripBlocksAnyLine(Tail(s))

\* the query without its comments: "--" to the end of the line, then the
\* blocks "/* ... */", those that span several lines included
WithoutComments(q) ==
  TrimSpace(StripBlocksAnyLine(StripLineComments(TrimSpace(ToLower(q)))))

\* C9: comments take no part in the checks: a forbidden keyword that occurs
\* only inside a comment causes no rejection, and a query of comments and
\* white space alone fails with EmptyQuery.
C9_CommentsRemoved ==
  Returned =>
     /\ verr.kind \in KeywordErrors => ForbiddenWords(WithoutComments(query)) # {}
     /\ WithoutComments(query) = <<>> => verr.kind = "EmptyQuery"

(***************************************************************************)
(* Properties of the query command, checked under SpecQuery                *)
(***************************************************************************)
\* the ExecuteQuery calls made for the user's SQL: all but the one of showTables
UserExecutions ==
  {i \in 1..Len(calls) :
     /\ calls[i].fn = "ExecuteQuery"
     /\ ~(input = <<".", "t", "a", "b", "l", "e", "s">> /\ qpc = "prompt")}

\* C1: in both modes a user-supplied SQL string reaches database.ExecuteQuery
\* only after ValidateReadOnlyQuery returned nil for exactly that string, the
\* string after the {table} substitution; a string whose validation returned
\* an error is never executed.
C1_ValidatedBeforeExecuted ==
  /\ \A i \in UserExecutions :
       /\ calls[i].arg = ReplaceAll(input, TablePlaceholder, tableName)
       /\ \E j \in 1..(i - 1) :
            /\ calls[j].fn = "ValidateReadOnlyQuery"
            /\ calls[j].arg = calls[i].arg
            /\ calls[j].ret = Nil
       /\ ValidateReadOnlyQuery(calls[i].arg) = Nil
  /\ \A j \in 1..Len(calls) :
       (calls[j].fn = "ValidateReadOnlyQuery" /\ calls[j].ret # Nil) =>
          UserExecutions = {}

\* C1 witness: a line with the placeholder was executed as substituted
C1_Witness ==
  /\ qpc = "prompt"
  /\ input = <<"s", "e", "l", "e", "c", "t", " ", "{", "t", "a", "b", "l", "e", "}">>
  /\ tableName = <<"l", "o", "g", "s">>
  /\ Len(calls) = 2
  /\ calls[2] = Call("ExecuteQuery", <<"s", "e", "l", "e", "c", "t", " ", "l", "o", "g", "s">>, Nil)

\* a call of the last turn returned an error
FailedCall(fn) == \E i \in 1..Len(calls) : calls[i].fn = fn /\ calls[i].ret # Nil

Interactive == sqlQuery = <<>> /\ qpc # "start"

\* C25: in interactive mode, after a validation failure or an execution
\* error the loop is at its prompt again, and a failed validation is not
\* followed by an execution; the session has ended only on the input exit
\* or quit or when the scanner had no more input; an empty line makes no
\* call. In single-query mode a validation failure makes the command
\* return the validation error with no ExecuteQuery call.
C25_ErrorsKeepTheSession ==
  /\ Interactive /\ (FailedCall("ValidateReadOnlyQuery") \/ FailedCall("ExecuteQuery")) =>
       /\ qpc = "prompt"
       /\ result = "running"
  /\ Interactive /\ FailedCall("ValidateReadOnlyQuery") => Len(calls) = 1
  /\ Interactive /\ qpc = "exited" =>
       /\ input \in { <<"e", "x", "i", "t">>, <<"q", "u", "i", "t">>, <<>> }
       /\ calls = <<>>
  /\ Interactive /\ qpc = "prompt" /\ input \notin { <<"e", "x", "i", "t">>, <<"q", "u", "i", "t">> } => result = "running"
  /\ Interactive /\ input = <<>> => calls = <<>>
  /\ sqlQuery # <<>> /\ qpc = "exited" /\ FailedCall("ValidateReadOnlyQuery") =>
       /\ result = "query validation failed"
       /\ Len(calls) = 1

\* the loop is at its prompt after a line that failed validation
C25_Witness ==
  /\ Interactive /\ qpc = "prompt"
  /\ input = <<"d", "r", "o", "p">>
  /\ FailedCall("ValidateReadOnlyQuery")

\* the loop is at its prompt after a line whose execution failed
C25_WitnessExecution ==
  /\ Interactive /\ qpc = "prompt"
  /\ FailedCall("ExecuteQuery")
  /\ input # <<".", "t", "a", "b", "l", "e", "s">>

(***************************************************************************)
(* Properties of inferValueType, checked under SpecInfer                   *)
(***************************************************************************)
Inferred == ipc = "return"

\* the value is a base-10 integer whose number lies in lo..hi, bounds included
NumberIn(v, lo, hi) == ParseIntOk(v) /\ IntBetween(v, lo, hi)

\* the value matches one of the textual timestamp formats
MatchesTextFormat(v) == \E i \in 1..Len(timestampFormats) : TimeParseOk(timestampFormats[i], v)

BooleanWords == { <<"t", "r", "u", "e">>, <<"f", "a", "l", "s", "e">>, <<"y", "e", "s">>, <<"n", "o">>, <<"y">>, <<"n">> }

\* the type by the first rule of the claim that matches
FirstRuleType(v) ==
  IF ParseIntOk(v)
  THEN IF \/ NumberIn(v, <<"3", "1", "5", "5", "3", "2", "8", "0", "0">>, <<"2", "5", "2", "4", "6", "0", "8", "0", "0", "0">>)
          \/ NumberIn(v, <<"3", "1", "5", "5", "3", "2", "8", "0", "0", "0", "0", "0">>, <<"2", "5", "2", "4", "6", "0", "8", "0", "0", "0", "0", "0", "0">>)
       THEN TypeTimestamp
       ELSE TypeInteger
  ELSE IF ParseFloatOk(v) THEN TypeReal
  ELSE IF ToLower(v) \in BooleanWords THEN TypeBoolean
  ELSE IF MatchesTextFormat(v) THEN TypeTimestamp
  ELSE TypeText

\* C10: inferValueType is total and returns the type of the first rule that
\* matches: integer (Timestamp inside the two inclusive ranges, else Integer),
\* float, boolean word, textual timestamp, Text; "0" and "1" are Integer, and
\* so are 315532799 and 2524608001.
C10_FirstMatchingRule ==
  Inferred =>
     /\ vtype \in ColumnTypes
     /\ vtype = FirstRuleType(value)
     /\ value \in { <<"0">>, <<"1">>, <<"3", "1", "5", "5", "3", "2", "7", "9", "9">>, <<"2", "5", "2", "4", "6", "0", "8", "0", "0", "1">> } => vtype = TypeInteger
     /\ value \in { <<"3", "1", "5", "5", "3", "2", "8", "0", "0">>, <<"2", "5", "2", "4", "6", "0", "8", "0", "0", "0">>, <<"3", "1", "5", "5", "3", "2", "8", "0", "0", "0", "0", "0">>, <<"2", "5", "2", "4", "6", "0", "8", "0", "0", "0", "0", "0", "0">> }
          => vtype = TypeTimestamp

\* C10 witness: the lower end of the seconds range was classified Timestamp
C10_Witness ==
  /\ Inferred
  /\ value = <<"3", "1", "5", "5", "3", "2", "8", "0", "0">>
  /\ vtype = TypeTimestamp

(***************************************************************************)
(* Properties of detectColumnType, checked under SpecDetect                *)
(***************************************************************************)
Detected == dpc = "return"

\* the sampled values of the column: the values the first sampleSize rows
\* hold in it, trimmed
SampledValues ==
  [i \in {j \in 1..Min(sampleSize, Len(sample)) : columnIndex <= Len(sample[j])}
     |-> TrimSpace(sample[i][columnIndex])]

\* the sampled values that are not empty: one vote each
Voters == {i \in DOMAIN SampledValues : SampledValues[i] # <<>>}

VotesFor(t) == Cardinality({i \in Voters : inferValueType(SampledValues[i]) = t})

\* the types whose share of the votes is at least 0.8
Winners == {t \in ColumnTypes : VotesFor(t) * 5 >= 4 * Cardinality(Voters)}

\* C11: detectColumnType counts one vote per sampled value that is not empty
\* after trimming and returns the type with the most votes when its share of
\* the votes is at least 0.8, the boundary included, and Text when the share
\* is below 0.8 or when no value voted.
C11_VoteThreshold ==
  Detected =>
     IF Voters = {} \/ Winners = {} THEN detectedType = TypeText
     ELSE detectedType \in Winners

\* the part of C11 that the code keeps: the same, for samples whose first
\* row has the column
C11_WhenFirstRowHasColumn ==
  (Detected /\ sample # <<>> /\ columnIndex <= Len(sample[1])) => C11_VoteThreshold

\* four integers and one word in five rows were classified Integer
C11_BoundaryReached ==
  /\ Detected
  /\ Len(sample) = 5 /\ sampleSize = 5
  /\ VotesFor(TypeInteger) = 4 /\ VotesFor(TypeText) = 1
  /\ detectedType = TypeInteger

\* the types with the most votes among those that got a vote
MostVoted(votes) ==
  {t \in ColumnTypes : votes[t] > 0 /\ \A u \in ColumnTypes : votes[u] <= votes[t]}

\* the vote map of the sample, as detectColumnType hands it to getMostCommonType
SampleVotes == TypeVotes(sample, columnIndex, sampleSize)

\* C27: the result of getMostCommonType does not depend on the order in
\* which the vote map is visited: for every vote map it can return one type
\* only. When two or more types tie for the most votes each holds at most
\* half of the votes and the result is Text.
C27_Deterministic ==
  dpc \in {"call", "return"} =>
     \A votes \in {SampleVotes} :
       \A total \in {Cardinality(VotingRows(sample, columnIndex, sampleSize))} :
         \A common \in {getMostCommonType(votes, total)} :
            /\ Cardinality(common) = 1
            /\ Cardinality(MostVoted(votes)) >= 2 =>
                 /\ \A t \in MostVoted(votes) : 2 * votes[t] <= total
                 /\ common = {TypeText}
            /\ (Detected /\ sample # <<>> /\ columnIndex <= Len(sample[1])) =>
                 common = {detectedType}

\* two integers and two reals tied, and the column came back as Text
C27_Witness ==
  /\ Detected
  /\ Len(sample) = 4 /\ sampleSize = 4
  /\ columnIndex <= Len(sample[1])
  /\ \A votes \in {SampleVotes} :
       /\ votes[TypeInteger] = 2 /\ votes[TypeReal] = 2
       /\ MostVoted(votes) = {TypeInteger, TypeReal}
  /\ detectedType = TypeText

(***************************************************************************)
(* Properties of sanitizeColumnName, checked under SpecSanitize            *)
(***************************************************************************)
\* C12: sanitizeColumnName is idempotent: applied to its own result it
\* returns that result, for every name, the empty name, digit-leading names
\* and names that start with col_ included.
C12_SanitizeIdempotent ==
  spc = "twice" => twice = once

\* C12 witness: a digit-leading name with a space got the prefix and the
\* underscore, and the second run changed nothing
C12_Witness ==
  /\ spc = "twice"
  /\ rawName = <<"1", " ", "A">>
  /\ once = <<"c", "o", "l", "_", "1", "_", "a">>
  /\ twice = <<"c", "o", "l", "_", "1", "_", "a">>

(***************************************************************************)
(* Properties of DetectSchema and of the statements generated from its     *)
(* schema, checked under SpecSchema                                        *)
(***************************************************************************)
\* DetectSchema has returned / has returned a schema
SchemaReturned == cpc \notin {"idle", "call"}

SchemaDetected == SchemaReturned /\ serr = "nil"

ColumnNames == [i \in 1..Len(schema.Columns) |-> schema.Columns[i].Name]

\* C13: every column name of a schema returned by DetectSchema is not empty,
\* is lowercase, holds only characters of [a-z0-9_] and does not begin with a
\* digit, for every header.
C13_NamesAreIdentifiers ==
  SchemaDetected =>
     \A i \in 1..Len(ColumnNames) :
        LET n == ColumnNames[i]
        IN /\ n # <<>>
           /\ \A j \in 1..Len(n) : n[j] \in Range(LowerLetters) \cup Digits \cup {"_"}
           /\ n[1] \notin Digits

\* C14: DetectSchema returns an error and no schema when headers is empty or
\* records is empty, the header check first; otherwise a schema named
\* tableName with one column per header, in header order, each with
\* Name = sanitizeColumnName(header) and Nullable = false.
C14_DetectSchemaContract ==
  SchemaReturned =>
     IF headers = <<>> THEN serr = "no headers found" /\ schema = NoSchema
     ELSE IF records = <<>> THEN serr = "no data records found" /\ schema = NoSchema
     ELSE /\ serr = "nil"
          /\ schema.Name = schemaTable
          /\ Len(schema.Columns) = Len(headers)
          /\ \A i \in 1..Len(headers) :
               /\ schema.Columns[i].Name = sanitizeColumnName(headers[i])
               /\ schema.Columns[i].Nullable = FALSE

\* C14 witness: a schema of four columns came back with the sanitized names
\* in header order
C14_Witness ==
  /\ SchemaDetected
  /\ headers = <<<<"u", "s", "e", "r", "-", "i", "d">>, <<"u", "s", "e", "r", "_", "n", "a", "m", "e">>, <<"u", "s", "e", "r", ".", "e", "m", "a", "i", "l">>, <<"u", "s", "e", "r", "@", "d", "o", "m", "a", "i", "n">>>>
  /\ ColumnNames = <<<<"u", "s", "e", "r", "_", "i", "d">>, <<"u", "s", "e", "r", "_", "n", "a", "m", "e">>, <<"u", "s", "e", "r", "_", "e", "m", "a", "i", "l">>, <<"u", "s", "e", "r", "@", "d", "o", "m", "a", "i", "n">>>>
  /\ schema.Name = schemaTable

\* the rules of the index heuristic, as lists of patterns
IndexSuffixes == { <<"_", "i", "d">>, <<"_", "c", "o", "d", "e">>, <<"_", "a", "d", "d", "r", "e", "s", "s">> }

IndexPrefixes == { <<"i", "d", "_">>, <<"c", "o", "d", "e", "_">> }

IndexSubstrings ==
  { <<"s", "t", "a", "t", "u", "s", "_", "c", "o", "d", "e">>, <<"u", "s", "e", "r", "_">>, <<"_", "u", "s", "e", "r">>, <<"t", "i", "m", "e">>, <<"d", "a", "t", "e">>, <<"c", "r", "e", "a", "t", "e", "d">>, <<"u", "p", "d", "a", "t", "e", "d">>,
    <<"i", "p", "_">>, <<"_", "i", "p">> }

IndexRule(n) ==
  LET lower == ToLower(n)
  IN \/ lower \in exactMatches
     \/ \E p \in IndexSuffixes : HasSuffix(lower, p)
     \/ \E p \in IndexPrefixes : HasPrefix(lower, p)
     \/ \E p \in IndexSubstrings : Contains(lower, p)

\* C17: shouldIndex is true exactly when the lowercased name meets one of the
\* listed rules (one of the 15 exact names, the suffixes, the prefixes, the
\* substrings), and DetectSchema sets each column's Index flag to shouldIndex
\* of the raw header, not of the sanitized name.
C17_IndexRules ==
  /\ Cardinality(exactMatches) = 15
  /\ SchemaDetected =>
       \A i \in 1..Len(headers) :
          /\ shouldIndex(headers[i]) = IndexRule(headers[i])
          /\ schema.Columns[i].Index = IndexRule(headers[i])

\* C17 witness: the header "User Name" is not indexed although its sanitized
\* name user_name meets a rule
C17_Witness ==
  /\ SchemaDetected
  /\ headers = <<<<"U", "s", "e", "r", " ", "N", "a", "m", "e">>, <<"u", "s", "e", "r", "_", "n", "a", "m", "e">>>>
  /\ schema.Columns[1].Name = <<"u", "s", "e", "r", "_", "n", "a", "m", "e">> /\ ~schema.Columns[1].Index
  /\ schema.Columns[2].Name = <<"u", "s", "e", "r", "_", "n", "a", "m", "e">> /\ schema.Columns[2].Index

\* the table the statement created, as the engine describes it
CreatedColumns ==
  IF ToLower(schema.Name) \in DOMAIN db.tables
  THEN db.tables[ToLower(schema.Name)].columns ELSE <<>>

\* C15: the statement of GenerateCreateTableSQL for a schema of DetectSchema
\* can be executed and produces a table whose columns, after the synthetic
\* id, are the schema's columns in name and nullability.
C15_CreateTableRoundTrip ==
  (SchemaDetected /\ cpc = "created") =>
     /\ \E i \in 1..Len(dbLog) :
          dbLog[i].sql = GenerateCreateTableSQL(schema) /\ dbLog[i].err = "nil"
     /\ CreatedColumns =
          <<[name |-> <<"i", "d">>, notnull |-> FALSE]>>
            \o [i \in 1..Len(schema.Columns) |->
                  [name |-> schema.Columns[i].Name, notnull |-> ~schema.Columns[i].Nullable]]

\* the positions of the indexed columns, in column order
RECURSIVE IndexedFrom(_)
IndexedFrom(i) ==
  IF i > Len(schema.Columns) THEN <<>>
  ELSE (IF schema.Columns[i].Index THEN <<i>> ELSE <<>>) \o IndexedFrom(i + 1)

\* C16: GenerateIndexSQL returns one statement for each column with
\* Index = true and none for the others, in column order, each of the form
\* CREATE INDEX IF NOT EXISTS idx_<table>_<column> ON <table> (<column>);
\* issuing the statements a second time leaves the set of indexes unchanged.
C16_IndexStatements ==
  /\ SchemaDetected =>
       LET stmts == GenerateIndexSQL(schema)
           pos   == IndexedFrom(1)
       IN /\ Len(stmts) = Len(pos)
          /\ \A k \in 1..Len(pos) :
               LET col == schema.Columns[pos[k]].Name
               IN /\ HasPrefix(stmts[k], <<"C", "R", "E", "A", "T", "E", " ", "I", "N", "D", "E", "X", " ", "I", "F", " ", "N", "O", "T", " ", "E", "X", "I", "S", "T", "S", " ", "i", "d", "x", "_">>)
                  /\ stmts[k] = Join(<<<<"C", "R", "E", "A", "T", "E", " ", "I", "N", "D", "E", "X", " ", "I", "F", " ", "N", "O", "T", " ", "E", "X", "I", "S", "T", "S">>,
                                      <<"i", "d", "x", "_">> \o schema.Name \o <<"_">> \o col, <<"O", "N">>,
                                      schema.Name, <<"(">> \o col \o <<")">>>>, <<" ">>)
  /\ cpc = "recreated" =>
       /\ db.indexes = dbBefore.indexes
       /\ \A i \in 1..Len(GenerateIndexSQL(schema)) :
            dberr = "nil" => dbLog[i + 1].sql = GenerateIndexSQL(schema)[i]

\* C16 witness: three of four columns are indexed, their statements ran
\* twice and the indexes stayed those of the first run
C16_Witness ==
  /\ cpc = "recreated"
  /\ headers = <<<<"t", "i", "m", "e", "s", "t", "a", "m", "p">>, <<"u", "s", "e", "r", "n", "a", "m", "e">>, <<"o", "p", "e", "r", "a", "t", "i", "o", "n">>, <<"s", "i", "z", "e">>>>
  /\ schemaTable = <<"l", "o", "g", "s">>
  /\ dberr = "nil"
  /\ Len(dbLog) = 4
  /\ DOMAIN db.indexes = { <<"i", "d", "x", "_", "l", "o", "g", "s", "_", "t", "i", "m", "e", "s", "t", "a", "m", "p">>, <<"i", "d", "x", "_", "l", "o", "g", "s", "_", "u", "s", "e", "r", "n", "a", "m", "e">>, <<"i", "d", "x", "_", "l", "o", "g", "s", "_", "o", "p", "e", "r", "a", "t", "i", "o", "n">> }
  /\ db.indexes = dbBefore.indexes

\* the types getMostCommonType can return for the votes of column i
VotedTypes(i) ==
  getMostCommonType(
    TypeVotes(records, i, Min(Len(records), SchemaDetectionSampleSize)),
    Cardinality(VotingRows(records, i, Min(Len(records), SchemaDetectionSampleSize))))

\* C26: a row with fewer fields than headers only casts no vote for the
\* columns it lacks: the type of every column is the one the votes of the
\* other sampled rows give, wherever the short row stands, the first row
\* included.
C26_ShortRowsOnlyAbstain ==
  SchemaDetected =>
     \A i \in 1..Len(schema.Columns) : schema.Columns[i].Type \in VotedTypes(i)

\* the part the code keeps: the same for the columns that the first row has
C26_WhenFirstRowHasColumn ==
  SchemaDetected =>
     \A i \in 1..Len(schema.Columns) :
        /\ i <= Len(records[1]) => schema.Columns[i].Type \in VotedTypes(i)
        /\ i > Len(records[1]) => schema.Columns[i].Type = TypeText

(***************************************************************************)
(* Claims about CreateTableFromSchema and InsertLogEntries                 *)
(***************************************************************************)
Created(mode) ==
  dbCall.op = "CreateTableFromSchema" /\ dberr = "nil" /\ dbCall.replaceMode = mode

Inserted(mode) ==
  dbCall.op = "InsertLogEntries" /\ dberr = "nil" /\ dbCall.appendMode = mode

ColumnNamesOf(d, t) == [i \in 1..Len(d.tables[t].columns) |-> d.tables[t].columns[i].name]

\* the row InsertLogEntries stores for an entry
EntryRow(entry) ==
  [columns |-> <<<<"t", "i", "m", "e", "s", "t", "a", "m", "p">>, <<"u", "s", "e", "r", "n", "a", "m", "e">>, <<"o", "p", "e", "r", "a", "t", "i", "o", "n">>, <<"s", "i", "z", "e">>>>,
   values |-> <<entry.Timestamp, entry.Username, entry.Operation, entry.Size>>]

EntryRows(entries) == [i \in 1..Len(entries) |-> EntryRow(entries[i])]

\* C18: after CreateTableFromSchema succeeds with replaceMode = true the
\* table has the columns of the new schema after the synthetic id of
\* GenerateCreateTableSQL, and no rows, whatever table of
\* that name there was; after it succeeds with replaceMode = false on a name
\* that has a table, the table keeps its rows and its columns.
C18_ReplaceOrKeep ==
  /\ Created(TRUE) =>
       LET ts == dbCall.schema
       IN /\ ts.Name \in DOMAIN db.tables
          /\ ColumnNamesOf(db, ts.Name) = <<<<"i", "d">>>> \o [i \in 1..Len(ts.Columns) |-> ts.Columns[i].Name]
          /\ db.tables[ts.Name].rows = <<>>
  /\ Created(FALSE) /\ dbCall.schema.Name \in DOMAIN dbBefore.tables =>
       LET t == dbCall.schema.Name
       IN /\ t \in DOMAIN db.tables
          /\ db.tables[t].rows = dbBefore.tables[t].rows
          /\ db.tables[t].columns = dbBefore.tables[t].columns

\* a table with rows and other columns was replaced
C18_Witness ==
  /\ Created(TRUE)
  /\ RowsOf(dbBefore, <<"l", "o", "g", "s">>) # <<>>
  /\ ColumnNamesOf(dbBefore, <<"l", "o", "g", "s">>) # ColumnNamesOf(db, <<"l", "o", "g", "s">>)

\* a table with rows got a schema of other columns in append mode
C18_WitnessAppend ==
  /\ Created(FALSE)
  /\ RowsOf(dbBefore, <<"l", "o", "g", "s">>) # <<>>
  /\ ColumnNamesOf(db, <<"l", "o", "g", "s">>) # <<<<"i", "d">>>> \o [i \in 1..Len(dbCall.schema.Columns) |-> dbCall.schema.Columns[i].Name]

\* C19: after a successful InsertLogEntries call with appendMode = false the
\* table holds exactly the entries of the call and none of the rows stored
\* before it, for every entries list, the empty list included.
C19_ReplaceHoldsExactlyEntries ==
  Inserted(FALSE) => RowsOf(db, dbCall.tableName) = EntryRows(dbCall.entries)

\* C19, for the lists that are not empty
C19_NonEmptyReplaced ==
  Inserted(FALSE) /\ dbCall.entries # <<>> =>
    RowsOf(db, dbCall.tableName) = EntryRows(dbCall.entries)

\* rows were stored and a call that is not in append mode returned no error
C19_EmptyListReached ==
  Inserted(FALSE) /\ dbCall.entries = <<>> /\ RowsOf(dbBefore, dbCall.tableName) # <<>>

\* C20: after a successful InsertLogEntries call with appendMode = true the
\* rows stored before are still there, the entries are added after them and
\* the count returned is len(entries); over a run of successful append calls
\* the table grows by the sum of the counts returned.
C20_AppendKeepsRows ==
  /\ Inserted(TRUE) =>
       /\ RowsOf(db, dbCall.tableName) =
            RowsOf(dbBefore, dbCall.tableName) \o EntryRows(dbCall.entries)
       /\ dbCount = Len(dbCall.entries)
  /\ Len(RowsOf(db, <<"l", "o", "g", "s">>)) = runBase + runSum

\* a second successful append call on a table with rows
C20_Witness ==
  /\ Inserted(TRUE)
  /\ RowsOf(dbBefore, <<"l", "o", "g", "s">>) # <<>>
  /\ dbCount > 0
  /\ runSum > dbCount

\* C21: InsertLogEntries inserts its entries as one transaction: when the
\* call returns an error no entry of the call is stored, and the rows stored
\* before the call are all still there, in replace mode too.
C21_AllOrNothing ==
  (dbCall.op = "InsertLogEntries" /\ dberr # "nil") =>
    RowsOf(db, dbCall.tableName) = RowsOf(dbBefore, dbCall.tableName)

\* C21, the part that holds: a failed call returns the number of entries
\* it stored, and they are a prefix of its list
C21_PartialCount ==
  (dbCall.op = "InsertLogEntries" /\ dberr = "failed to insert entry") =>
    /\ dbCount < Len(dbCall.entries)
    /\ RowsOf(db, dbCall.tableName) =
         (IF dbCall.appendMode THEN RowsOf(dbBefore, dbCall.tableName) ELSE <<>>)
           \o EntryRows(SubSeq(dbCall.entries, 1, dbCount))

(***************************************************************************)
(* Claims about InsertRecords                                              *)
(***************************************************************************)
RecordsCalled == dbCall.op = "InsertRecords"

\* the index of the first record whose field count is not the header
\* count, 0 when there is none
FirstMismatch(hs, rs) ==
  IF \E i \in 1..Len(rs) : Len(rs[i]) # Len(hs)
    THEN CHOOSE i \in 1..Len(rs) :
           /\ Len(rs[i]) # Len(hs)
           /\ \A k \in 1..(i - 1) : Len(rs[k]) = Len(hs)
    ELSE 0

RowValues(rows) == [i \in 1..Len(rows) |-> rows[i].values]

ShapeError == "record has the wrong number of fields"

\* C22: InsertRecords returns (0, nil) for an empty record list and fails
\* when headers is empty and records is not. With a record whose field
\* count differs from the header count the call fails, at the latest at the
\* first such record and then with the error that names its index; the
\* count returned is the number of records before the failure, those are
\* stored after the rows of the table, and no later record is stored.
C22_RecordShape ==
  RecordsCalled =>
    /\ dbCall.records = <<>> => dberr = "nil" /\ dbCount = 0 /\ db = dbBefore
    /\ dbCall.records # <<>> /\ dbCall.headers = <<>> =>
         dberr = "no headers provided" /\ dbCount = 0 /\ db = dbBefore
    /\ dbCall.records # <<>> /\ dbCall.headers # <<>>
         /\ FirstMismatch(dbCall.headers, dbCall.records) > 0 =>
         /\ dberr # "nil"
         /\ dbCount < FirstMismatch(dbCall.headers, dbCall.records)
         /\ \/ dberr = ShapeError
            \/ dberr = "failed to prepare insert statement"
            \/ /\ dberr = "failed to insert record"
               /\ dbRecord < FirstMismatch(dbCall.headers, dbCall.records)
    /\ dberr = ShapeError =>
         /\ dbRecord = FirstMismatch(dbCall.headers, dbCall.records)
         /\ dbRecord > 0
         /\ dbCount = dbRecord - 1
    /\ RowValues(RowsOf(db, dbCall.tableName)) =
         RowValues(RowsOf(dbBefore, dbCall.tableName))
           \o [k \in 1..dbCount |-> RecordArgs(dbCall.records[k])]

\* the third record has the wrong field count, after two that were stored
\* in a table that held a row
C22_Witness ==
  /\ RecordsCalled
  /\ dberr = ShapeError
  /\ dbRecord = 3
  /\ dbCount = 2
  /\ RowsOf(dbBefore, dbCall.tableName) # <<>>
  /\ Len(RowsOf(db, dbCall.tableName)) = 3

(***************************************************************************)
(* Claims about concurrent callers                                         *)
(***************************************************************************)
AllDone == \A g \in Goroutines : goPc[g] = "done"

AllAppend == \A g \in Goroutines : goMode[g]

RECURSIVE AllEntries(_)
\* the entries of goroutines 1..n
AllEntries(n) == IF n = 0 THEN <<>> ELSE AllEntries(n - 1) \o goEntries[n]

\* how many of the rows are the row of entry e
Copies(rows, e) == Cardinality({i \in 1..Len(rows) : rows[i] = EntryRow(e)})

C24_ReplaceAtomic ==
  /\ dbCall.op = "CreateTableFromSchema" /\ ctsPc # "idle"
  /\ dbCall.replaceMode
  /\ dbCall.schema.Name \in DOMAIN dbBefore.tables
  /\ seen # NoView
  => seen.err = "nil"

\* what the code gives: a read fails exactly between the DROP and the
\* CREATE, that is after the first statement of a replace and before the
\* second; any other read returns the old table or the new one
C24_ReadBetweenDropAndCreate ==
  ctsPc = "exec" =>
    LET view == ExecuteQueryTable(db, dbCall.schema.Name)
    IN IF dbCall.replaceMode /\ ctsDone = 1 THEN view.err = "query execution failed"
       ELSE IF ctsDone = 0
         THEN view = ExecuteQueryTable(dbBefore, dbCall.schema.Name)
       ELSE /\ view.err = "nil"
            /\ dbCall.replaceMode => view.rows = <<>>

(***************************************************************************)
(* Claims about a load with schema detection: DetectSchema, then           *)
(* CreateTableFromSchema, then InsertRecords, checked under SpecSchema     *)
(***************************************************************************)
\* the table was created and InsertRecords has returned
Loaded == cpc = "inserted"

\* the names of the columns CreateTableFromSchema made for the schema,
\* without the id it adds
LoadedColumns ==
  [i \in 1..(Len(dbBefore.tables[schemaTable].columns) - 1) |->
     dbBefore.tables[schemaTable].columns[i + 1].name]

\* C28: the column names InsertRecords puts in its INSERT statement, the
\* headers, name exactly the columns CreateTableFromSchema created for the
\* schema detected from those headers (the engine compares names without
\* regard to case), so the statement is never refused for a column name.
C28_InsertNamesTheColumns ==
  Loaded =>
    /\ Len(headers) = Len(LoadedColumns)
    /\ \A i \in 1..Len(headers) : ToLower(headers[i]) = LoadedColumns[i]
    /\ dberr # "failed to prepare insert statement"

\* what the code gives: the statement is prepared when every header is an
\* identifier that names its own column, whatever the case of its letters
C28_PreparedWhenHeadersAreIdentifiers ==
  Loaded /\ (\A i \in 1..Len(headers) :
               /\ IsIdentifier(headers[i])
               /\ ToLower(headers[i]) = LoadedColumns[i])
    => dberr # "failed to prepare insert statement"

AllComplete == \A i \in 1..Len(records) : Len(records[i]) = Len(headers)

\* C29: a load of records that all have exactly len(headers) fields inserts
\* every record, records with empty fields included: no insert is refused
\* by a constraint of the table the load created. Stated for the loads whose
\* INSERT statement was prepared.
C29_CompleteRecordsInserted ==
  Loaded /\ AllComplete /\ dberr # "failed to prepare insert statement" =>
    /\ dberr = "nil"
    /\ dbCount = Len(records)
    /\ Len(RowsOf(db, schemaTable)) = Len(RowsOf(dbBefore, schemaTable)) + Len(records)

\* what the code gives: the same for records without an empty field, and
\* the record with the first empty field is the one refused
C29_InsertedUnlessEmptyField ==
  Loaded /\ AllComplete /\ dberr # "failed to prepare insert statement" =>
    IF \A i \in 1..Len(records) : \A j \in 1..Len(records[i]) : records[i][j] # <<>>
      THEN dberr = "nil" /\ dbCount = Len(records)
      ELSE /\ dberr = "failed to insert record"
           /\ \E j \in 1..Len(records[dbRecord]) : records[dbRecord][j] = <<>>
           /\ dbCount = dbRecord - 1

(***************************************************************************)
(* The second keyword scan of ValidateReadOnlyQuery, checked under         *)
(* SpecValidate                                                            *)
(***************************************************************************)
HasParentheses(n) == Contains(n, <<"(">>) /\ Contains(n, <<")">>)

\* C30: the second forbidden-keyword scan, guarded by '(' and ')', never
\* decides: no input fails with the 'detected in subquery' error, because a
\* text in which the scan finds a keyword has failed the first scan, or a
\* check before it, already.
C30_SecondScanNeverDecides ==
  Returned =>
    /\ verr.kind # "ForbiddenKeywordInSubquery"
    /\ (HasParentheses(normalized) /\ MatchingKeywords(normalized) # {}) =>
          verr.kind \in {"PragmaNotAllowed", "NotReadOnly", "ForbiddenKeyword"}
    /\ (PassesHead(normalized) /\ KeywordCheck(normalized) = Nil) =>
          SubqueryCheck(normalized) = Nil

\* a text with a keyword between parentheses passed the statement-head
\* check and was rejected by the first scan
C30_Witness ==
  /\ Returned
  /\ query = <<"s", "e", "l", "e", "c", "t", "(", "d", "r", "o", "p", ")">>
  /\ HasParentheses(normalized)
  /\ SubqueryCheck(normalized) = Err("ForbiddenKeywordInSubquery", <<"D", "R", "O", "P">>)
  /\ verr = Err("ForbiddenKeyword", <<"D", "R", "O", "P">>)

====
